---- MODULE Spec2Model ----
(***************************************************************************)
(* cc-session-to-md: JSONL session logs -> Markdown.                       *)
(*                                                                         *)
(* Modelled components                                                     *)
(*   SessionParser        src/src/parsers/SessionParser.ts                 *)
(*   MessageWrapper       src/src/parsers/MessageWrapper.ts                *)
(*   MessageProcessor     src/unnamed/part_004 (the version that leaves    *)
(*                        flushing to MarkdownFormatter)                   *)
(*   ToolResultProcessor  src/unnamed/part_003                             *)
(*   MarkdownFormatter    src/src/parsers/SessionParser.test.ts:391-677    *)
(*                                                                         *)
(* Representation.  A JavaScript string is a sequence of tokens (Str): a   *)
(* token is a lexical atom the code's patterns can tell apart (a word, a   *)
(* blank, "\n", a tag such as "<command-name>").  Template literals and    *)
(* + are concatenation (\o), split/join/trim/startsWith and the regular    *)
(* expressions work on the token sequence.  Identifiers (sessionId, uuid,  *)
(* tool ids, tool names, record types) are TLA+ strings.  A JS object the  *)
(* code creates with JSON.parse carries a line field: its identity (the    *)
(* position of the input line it was parsed from).                         *)
(***************************************************************************)
EXTENDS Integers, Sequences, FiniteSets, TLC

VARIABLES
  input,          \* the lines handed to parseInput / convertInput
  pc,             \* position of the running call
  summaryLeafs,   \* SessionParser.summaryLeafs : leafUuid -> summary text
  sessionGroups,  \* processMessages' local Map sessionId -> records
  gi,             \* index of the next bucket processMessages will split
  sessions,       \* SessionParser.sessions (a Map, in insertion order)
  context,        \* MessageProcessor.context
  jobs,           \* the sessions convertSession was called on, as indices of the Map
  mi,             \* convertSession: index of the next record of forEach
  output,         \* convertSession: its output array
  frags,          \* what processMessage returned for each record of the session so far
  returned,       \* what messageProcessor.processMessage returned, and left, per record,
                  \* and the results the formatter then handed to formatToolResults
  results,        \* the ConversionResults, in call order, each with the results
                  \* its terminal flush handed to formatToolResults
  document        \* what convertInput returned

parserVars == <<input, pc, summaryLeafs, sessionGroups, gi, sessions>>

formatterVars == <<context, jobs, mi, output, frags, returned, results, document>>

vars == <<parserVars, formatterVars>>

-----------------------------------------------------------------------------
(* Bounds *)

\* longest input (in lines) handed to parseInput
MaxLines == 4

\* most records of the first session handed to convertInput
MaxRecords == 3

\* most calls of convertSession after convertInput returned
MaxAgain == 1

\* most lines of a tool output
MaxContentLines == 75

\* most todos of a TodoWrite input
MaxTodos == 3

-----------------------------------------------------------------------------
(* JavaScript values *)

Undefined == "<undefined>"

\* truthiness of an optional identifier (undefined and '' are falsy)
Truthy(s) == s # Undefined /\ s # ""

\* the empty string; an absent optional text is modelled by it wherever the
\* code only tests the text's truthiness
EmptyStr == <<>>

IsSpace(tok) == tok \in {" ", "\n", "\t"}

\* the concatenation of a sequence of sequences (by halves, so that long
\* sequences nest shallowly)
RECURSIVE Flatten(_)
Flatten(ss) ==
  IF ss = <<>> THEN <<>>
  ELSE IF Len(ss) = 1 THEN ss[1]
  ELSE Flatten(SubSeq(ss, 1, Len(ss) \div 2))
       \o Flatten(SubSeq(ss, Len(ss) \div 2 + 1, Len(ss)))

\* Array.prototype.join / String.prototype.split on token sequences
Join(ss, sep) ==
  Flatten([i \in 1..Len(ss) |-> IF i = 1 THEN ss[i] ELSE sep \o ss[i]])

\* the position of the k-th occurrence of sep in s
SepPosition(s, sep, k) ==
  CHOOSE i \in 1..Len(s) :
    s[i] = sep /\ Cardinality({j \in 1..(i - 1) : s[j] = sep}) = k - 1

Split(s, sep) ==
  LET n == Cardinality({i \in 1..Len(s) : s[i] = sep})
  IN [k \in 1..(n + 1) |->
        SubSeq(s, IF k = 1 THEN 1 ELSE SepPosition(s, sep, k - 1) + 1,
                  IF k = n + 1 THEN Len(s) ELSE SepPosition(s, sep, k) - 1)]

StartsWith(s, p) == Len(s) >= Len(p) /\ SubSeq(s, 1, Len(p)) = p

RECURSIVE TrimLeft(_)
TrimLeft(s) == IF s # <<>> /\ IsSpace(Head(s)) THEN TrimLeft(Tail(s)) ELSE s

RECURSIVE TrimRight(_)
TrimRight(s) ==
  IF s # <<>> /\ IsSpace(s[Len(s)]) THEN TrimRight(SubSeq(s, 1, Len(s) - 1)) ELSE s

Trim(s) == TrimRight(TrimLeft(s))

\* a JavaScript Map: a sequence of [key, value] in insertion order
MapHas(m, k) == \E i \in 1..Len(m) : m[i].key = k
MapGet(m, k) == m[CHOOSE i \in 1..Len(m) : m[i].key = k].value
MapSet(m, k, v) ==
  IF MapHas(m, k)
  THEN [i \in 1..Len(m) |-> IF m[i].key = k THEN [key |-> k, value |-> v] ELSE m[i]]
  ELSE Append(m, [key |-> k, value |-> v])

EmptyObject == [k \in {} |-> <<>>]

-----------------------------------------------------------------------------
(* Record model: src/src/types/index.ts *)

StringContent(text) == [isArray |-> FALSE, text |-> text, items |-> <<>>]
ArrayContent(items) == [isArray |-> TRUE, text |-> EmptyStr, items |-> items]

NoInput ==
  [file_path |-> EmptyStr, old_string |-> EmptyStr, new_string |-> EmptyStr,
   command |-> EmptyStr, path |-> EmptyStr, hasTodos |-> FALSE, todos |-> <<>>]

ContentItem ==
  [type |-> "text", text |-> EmptyStr, id |-> Undefined, name |-> Undefined,
   input |-> NoInput, tool_use_id |-> Undefined,
   content |-> StringContent(EmptyStr), is_error |-> FALSE]

NoToolUseResult ==
  [defined |-> FALSE, hasPatch |-> FALSE, filePath |-> EmptyStr, structuredPatch |-> <<>>]

MessageData ==
  [line |-> 0, type |-> "user", sessionId |-> Undefined, uuid |-> Undefined,
   leafUuid |-> Undefined, summary |-> EmptyStr, timestamp |-> EmptyStr,
   cwd |-> EmptyStr,
   isMeta |-> FALSE, isApiErrorMessage |-> FALSE,
   content |-> StringContent(EmptyStr), toolUseResult |-> NoToolUseResult]

TextItem(t) == [ContentItem EXCEPT !.type = "text", !.text = t]

-----------------------------------------------------------------------------
(* MessageWrapper: src/src/parsers/MessageWrapper.ts, with the patterns of  *)
(* src/src/types/constants.ts                                               *)

isContentArray(d) == d.content.isArray

getTextContent(d) ==
  IF ~isContentArray(d) THEN d.content.text
  ELSE Join([i \in 1..Len(SelectSeq(d.content.items, LAMBDA it : it.type = "text")) |->
               SelectSeq(d.content.items, LAMBDA it : it.type = "text")[i].text],
            <<"\n">>)

getToolResults(d) ==
  IF ~isContentArray(d) THEN <<>>
  ELSE SelectSeq(d.content.items, LAMBDA it : it.type = "tool_result")

getToolUses(d) ==
  IF ~isContentArray(d) THEN <<>>
  ELSE SelectSeq(d.content.items, LAMBDA it : it.type = "tool_use")

getRegularContent(d) ==
  IF ~isContentArray(d) THEN <<>>
  ELSE SelectSeq(d.content.items, LAMBDA it : it.type # "tool_result")

isCaveatMessage(d) ==
  IF ~d.isMeta THEN FALSE
  ELSE IF ~isContentArray(d) THEN StartsWith(d.content.text, <<"Caveat:">>)
  ELSE \E i \in 1..Len(d.content.items) :
         /\ d.content.items[i].type = "text"
         /\ StartsWith(d.content.items[i].text, <<"Caveat:">>)

\* tokens that contain the character '<'
HasLt(tok) ==
  tok \in {"<", "<command-name>", "</command-name>", "<command-args>",
           "</command-args>", "<local-command-stdout>", "</local-command-stdout>"}

\* COMMAND_PATTERNS.COMMAND_NAME = /<command-name>([^<]+)<\/command-name>/ :
\* the positions <<i, j>> of an opening and a closing tag with a non-empty
\* '<'-free run between them
CommandNameMatches(s) ==
  {m \in (1..Len(s)) \X (1..Len(s)) :
     /\ s[m[1]] = "<command-name>"
     /\ s[m[2]] = "</command-name>"
     /\ m[2] > m[1] + 1
     /\ \A k \in (m[1] + 1)..(m[2] - 1) : ~HasLt(s[k])}

\* COMMAND_PATTERNS.COMMAND_ARGS = /<command-args>([^<]*)<\/command-args>/
CommandArgsMatches(s) ==
  {m \in (1..Len(s)) \X (1..Len(s)) :
     /\ s[m[1]] = "<command-args>"
     /\ s[m[2]] = "</command-args>"
     /\ m[2] > m[1]
     /\ \A k \in (m[1] + 1)..(m[2] - 1) : ~HasLt(s[k])}

\* the leftmost match of a set of matches
FirstMatch(ms) == CHOOSE m \in ms : \A n \in ms : m[1] <= n[1]

isCommand(d) ==
  IF isContentArray(d) THEN FALSE ELSE CommandNameMatches(d.content.text) # {}

extractCommand(d) ==
  LET s == d.content.text
      nm == FirstMatch(CommandNameMatches(s))
      am == FirstMatch(CommandArgsMatches(s))
  IN [name |-> SubSeq(s, nm[1] + 1, nm[2] - 1),
      args |-> IF CommandArgsMatches(s) # {} THEN SubSeq(s, am[1] + 1, am[2] - 1)
               ELSE EmptyStr]

isApiError(d) == d.isApiErrorMessage

\* COMMAND_PATTERNS.COMMAND_STDOUT = /<local-command-stdout><\/local-command-stdout>/
isEmptyCommandOutput(d) ==
  IF isContentArray(d) THEN FALSE
  ELSE \E i \in 1..(Len(d.content.text) - 1) :
         /\ d.content.text[i] = "<local-command-stdout>"
         /\ d.content.text[i + 1] = "</local-command-stdout>"

InterruptionText == <<"[Request interrupted by user for tool use]">>

isInterruptionMessage(d) == ~isContentArray(d) /\ d.content.text = InterruptionText

-----------------------------------------------------------------------------
(* cleanSummary: src/src/types/constants.ts:199-211 *)

\* text.replace(/\s+/g, ' ')
RECURSIVE CollapseSpace(_)
CollapseSpace(s) ==
  IF s = <<>> THEN <<>>
  ELSE IF IsSpace(Head(s)) THEN <<" ">> \o CollapseSpace(TrimLeft(s))
  ELSE <<Head(s)>> \o CollapseSpace(Tail(s))

\* cleaned.replace(/\.+$/, '')
RECURSIVE StripTrailingDots(_)
StripTrailingDots(s) ==
  IF s # <<>> /\ s[Len(s)] = "." THEN StripTrailingDots(SubSeq(s, 1, Len(s) - 1)) ELSE s

cleanSummary(text) ==
  IF text = EmptyStr THEN text ELSE StripTrailingDots(Trim(CollapseSpace(text)))

-----------------------------------------------------------------------------
(* Timestamps: src/src/types/constants.ts:61-67 and 125-194.  A timestamp  *)
(* is a sequence of characters, an absent one the empty sequence; a Date is *)
(* its time value, NaN or a day since the epoch and a millisecond of the    *)
(* day                                                                      *)

IsDigit(c) == c \in {"0", "1", "2", "3", "4", "5", "6", "7", "8", "9"}

IsHex(c) ==
  IsDigit(c) \/ c \in {"a", "b", "c", "d", "e", "f", "A", "B", "C", "D", "E", "F"}

DigitValue(c) ==
  CASE c = "0" -> 0 [] c = "1" -> 1 [] c = "2" -> 2 [] c = "3" -> 3 [] c = "4" -> 4
    [] c = "5" -> 5 [] c = "6" -> 6 [] c = "7" -> 7 [] c = "8" -> 8 [] c = "9" -> 9

\* s starts with the pattern, in which "d" stands for \d and "h" for [a-f0-9]
\* (case-insensitive)
MatchesPrefix(s, pattern) ==
  /\ Len(s) >= Len(pattern)
  /\ \A i \in 1..Len(pattern) :
       CASE pattern[i] = "d" -> IsDigit(s[i])
         [] pattern[i] = "h" -> IsHex(s[i])
         [] OTHER -> s[i] = pattern[i]

MatchesWhole(s, pattern) == Len(s) = Len(pattern) /\ MatchesPrefix(s, pattern)

\* TIME_FORMATS
TIMESTAMP_REGEX == <<"d", "d", "d", "d", "-", "d", "d", "-", "d", "d", "T", "d", "d", ":", "d", "d", ":", "d", "d">>
DATE_REGEX == <<"d", "d", "d", "d", "-", "d", "d", "-", "d", "d">>
UNIX_TIMESTAMP_REGEX == <<"d", "d", "d", "d", "d", "d", "d", "d", "d", "d">>
UNIX_TIMESTAMP_MS_REGEX == <<"d", "d", "d", "d", "d", "d", "d", "d", "d", "d", "d", "d", "d">>
UUID_REGEX == <<"h", "h", "h", "h", "h", "h", "h", "h", "-", "h", "h", "h", "h", "-", "h", "h", "h", "h", "-", "h", "h", "h", "h", "-", "h", "h", "h", "h", "h", "h", "h", "h", "h", "h", "h", "h">>

MsPerDay == 24 * 60 * 60 * 1000

InvalidDate == [nan |-> TRUE, day |-> 0, ms |-> 0]

\* new Date(0)
Epoch == [nan |-> FALSE, day |-> 0, ms |-> 0]

\* date.getTime() === 0
IsTimeZero(date) == ~date.nan /\ date.day = 0 /\ date.ms = 0

\* a < b on Dates (false when either is an Invalid Date)
DateBefore(a, b) ==
  /\ ~a.nan /\ ~b.nan
  /\ (a.day < b.day \/ (a.day = b.day /\ a.ms < b.ms))

\* the value of a run of decimal digits
RECURSIVE DigitsValue(_)
DigitsValue(s) ==
  IF s = <<>> THEN 0 ELSE 10 * DigitsValue(SubSeq(s, 1, Len(s) - 1)) + DigitValue(s[Len(s)])

\* new Date(n) for the number written by the digits s, in units of unitMs
\* milliseconds (days and the rest of the day are carried digit by digit)
RECURSIVE DateOfDigits(_, _)
DateOfDigits(s, unitMs) ==
  IF s = <<>> THEN Epoch
  ELSE LET before == DateOfDigits(SubSeq(s, 1, Len(s) - 1), unitMs)
           rest == 10 * before.ms + DigitValue(s[Len(s)]) * unitMs
       IN [nan |-> FALSE, day |-> 10 * before.day + rest \div MsPerDay,
           ms |-> rest % MsPerDay]

IsLeapYear(y) == (y % 4 = 0 /\ y % 100 # 0) \/ y % 400 = 0

DaysInMonth(y, m) ==
  IF m = 2 THEN (IF IsLeapYear(y) THEN 29 ELSE 28)
  ELSE IF m \in {4, 6, 9, 11} THEN 30 ELSE 31

\* the number of days from 1970-01-01 to y-m-d, for y >= 1970
DaysFromCivil(y, m, d) ==
  LET yy == IF m <= 2 THEN y - 1 ELSE y
      era == yy \div 400
      yoe == yy - era * 400
      doy == (153 * (IF m > 2 THEN m - 3 ELSE m + 9) + 2) \div 5 + d - 1
      doe == yoe * 365 + yoe \div 4 - yoe \div 100 + doy
  IN era * 146097 + doe - 719468

\* the Date of the fields of a date-time string, an Invalid Date when a field
\* is out of range
DateOfFields(y, m, d, hh, mm, ss, fff) ==
  IF y < 1970 \/ m \notin 1..12 \/ d \notin 1..DaysInMonth(y, m)
     \/ hh > 23 \/ mm > 59 \/ ss > 59
  THEN InvalidDate
  ELSE [nan |-> FALSE, day |-> DaysFromCivil(y, m, d),
        ms |-> ((hh * 60 + mm) * 60 + ss) * 1000 + fff]

\* the Date of YYYY-MM-DDTHH:MM:SS followed by rest
DateTimeOf(s, fraction, zone) ==
  IF zone \notin {<<>>, <<"Z">>} THEN InvalidDate
  ELSE DateOfFields(DigitsValue(SubSeq(s, 1, 4)), DigitsValue(SubSeq(s, 6, 7)),
                    DigitsValue(SubSeq(s, 9, 10)), DigitsValue(SubSeq(s, 12, 13)),
                    DigitsValue(SubSeq(s, 15, 16)), DigitsValue(SubSeq(s, 18, 19)),
                    DigitsValue(fraction))

\* new Date(string) in a process whose time zone is UTC, for the date-time
\* strings YYYY-MM-DDTHH:MM:SS with an optional fraction of three digits and
\* an optional Z, and the date strings YYYY-MM-DD, of the years from 1970;
\* every other string is not a date
NewDate(s) ==
  IF MatchesWhole(s, DATE_REGEX)
  THEN DateOfFields(DigitsValue(SubSeq(s, 1, 4)), DigitsValue(SubSeq(s, 6, 7)),
                    DigitsValue(SubSeq(s, 9, 10)), 0, 0, 0, 0)
  ELSE IF ~MatchesPrefix(s, TIMESTAMP_REGEX) THEN InvalidDate
  ELSE IF Len(s) >= 23 /\ MatchesPrefix(SubSeq(s, 20, Len(s)), <<".", "d", "d", "d">>)
  THEN DateTimeOf(s, SubSeq(s, 21, 23), SubSeq(s, 24, Len(s)))
  ELSE DateTimeOf(s, <<>>, SubSeq(s, 20, Len(s)))

isValidTimestamp(timestamp) ==
  IF timestamp = <<>> \/ Trim(timestamp) = <<>> THEN FALSE
  ELSE IF MatchesWhole(timestamp, UUID_REGEX) THEN FALSE
  ELSE IF MatchesPrefix(timestamp, TIMESTAMP_REGEX) THEN TRUE
  ELSE IF MatchesPrefix(timestamp, DATE_REGEX) THEN TRUE
  ELSE IF MatchesWhole(timestamp, UNIX_TIMESTAMP_REGEX)
          \/ MatchesWhole(timestamp, UNIX_TIMESTAMP_MS_REGEX) THEN TRUE
  ELSE ~NewDate(timestamp).nan

\* isNaN(date.getTime()) ? new Date(0) : date
EpochIfInvalid(date) == IF date.nan THEN Epoch ELSE date

parseTimestamp(timestamp) ==
  IF timestamp = <<>> \/ Trim(timestamp) = <<>> THEN Epoch
  ELSE IF MatchesPrefix(timestamp, TIMESTAMP_REGEX) THEN NewDate(timestamp)
  ELSE IF MatchesPrefix(timestamp, DATE_REGEX) THEN NewDate(timestamp)
  ELSE IF MatchesWhole(timestamp, UNIX_TIMESTAMP_REGEX) THEN DateOfDigits(timestamp, 1000)
  ELSE IF MatchesWhole(timestamp, UNIX_TIMESTAMP_MS_REGEX) THEN DateOfDigits(timestamp, 1)
  ELSE EpochIfInvalid(NewDate(timestamp))

-----------------------------------------------------------------------------
(* SessionParser: src/src/parsers/SessionParser.ts *)

\* JSON.parse(line) returns (does not throw)
JsonParses(l) == l.kind = "json"

\* input.trim().split('\n').filter(line => line.trim())
InputLines(in) == SelectSeq(in, LAMBDA l : l.kind # "blank")

\* collectSummaries keeping the first summary text seen for a leafUuid
RECURSIVE collectSummaries_firstWins(_, _)
collectSummaries_firstWins(lines, leafs) ==
  IF lines = <<>> THEN leafs
  ELSE LET l == Head(lines)
           d == l.data
       IN collectSummaries_firstWins(Tail(lines),
            IF JsonParses(l) /\ d.type = "summary" /\ Truthy(d.leafUuid)
               /\ d.summary # EmptyStr
            THEN leafs @@ (d.leafUuid :> d.summary)
            ELSE leafs)

RECURSIVE collectSummaries(_, _)
collectSummaries(lines, leafs) ==
  IF lines = <<>> THEN leafs
  ELSE LET l == Head(lines)
           d == l.data
       IN collectSummaries(Tail(lines),
            IF JsonParses(l) /\ d.type = "summary" /\ Truthy(d.leafUuid)
               /\ d.summary # EmptyStr
            THEN (d.leafUuid :> d.summary) @@ leafs
            ELSE leafs)

\* the grouping loop giving up at the first line that is not JSON
RECURSIVE groupMessages_stopsAtBadLine(_, _)
groupMessages_stopsAtBadLine(lines, groups) ==
  IF lines = <<>> \/ ~JsonParses(Head(lines)) THEN groups
  ELSE LET d == Head(lines).data
       IN groupMessages_stopsAtBadLine(Tail(lines),
            IF Truthy(d.sessionId)
            THEN MapSet(groups, d.sessionId,
                        (IF MapHas(groups, d.sessionId)
                         THEN MapGet(groups, d.sessionId) ELSE <<>>) \o <<d>>)
            ELSE groups)

\* the grouping loop of processMessages (lines 159-174)
RECURSIVE groupMessages(_, _)
groupMessages(lines, groups) ==
  IF lines = <<>> THEN groups
  ELSE LET l == Head(lines)
           d == l.data
       IN groupMessages(Tail(lines),
            IF JsonParses(l) /\ Truthy(d.sessionId)
            THEN MapSet(groups, d.sessionId,
                        (IF MapHas(groups, d.sessionId)
                         THEN MapGet(groups, d.sessionId) ELSE <<>>) \o <<d>>)
            ELSE groups)

NewSession(sessionId) ==
  [id |-> sessionId, messages |-> <<>>, summary |-> EmptyStr,
   generatedSummary |-> EmptyStr, firstTimestamp |-> EmptyStr,
   lastTimestamp |-> EmptyStr, firstCreated |-> Epoch, lastModified |-> Epoch,
   messageCount |-> 0]

\* processSessionMessage, lines 275-292
\* the session's createdAt and modifiedAt widened to include messageDate
widenTimes(session, messageDate) ==
  IF IsTimeZero(messageDate) THEN session
  ELSE [session EXCEPT
          !.firstCreated = IF IsTimeZero(@) \/ DateBefore(messageDate, @)
                           THEN messageDate ELSE @,
          !.lastModified = IF IsTimeZero(@) \/ DateBefore(@, messageDate)
                           THEN messageDate ELSE @]

updateTimestamps(data, session) ==
  IF ~(data.timestamp # EmptyStr /\ isValidTimestamp(data.timestamp)) THEN session
  ELSE widenTimes([session EXCEPT
                     !.firstTimestamp = IF @ = EmptyStr THEN data.timestamp ELSE @,
                     !.lastTimestamp = data.timestamp],
                  parseTimestamp(data.timestamp))

extractSummaryFromMessage(d) ==
  IF isCommand(d) \/ isInterruptionMessage(d) \/ isEmptyCommandOutput(d) THEN EmptyStr
  ELSE IF Trim(getTextContent(d)) = EmptyStr THEN EmptyStr
  ELSE cleanSummary(getTextContent(d))

\* processSessionMessage counting every record it appends
processSessionMessage_countsEveryRecord(data, session, leafs) ==
  LET s1 == [session EXCEPT !.messages = Append(@, data)]
      s2 == IF Truthy(data.uuid) /\ data.uuid \in DOMAIN leafs
            THEN [s1 EXCEPT !.summary = leafs[data.uuid]] ELSE s1
      timed == updateTimestamps(data, s2)
      gen == extractSummaryFromMessage(data)
      s3 == IF timed.generatedSummary = EmptyStr /\ data.type = "user" /\ ~data.isMeta
               /\ gen # EmptyStr /\ gen # <<"Untitled">>
            THEN [timed EXCEPT !.generatedSummary = gen] ELSE timed
  IN [s3 EXCEPT !.messageCount = @ + 1]

processSessionMessage(data, session, leafs) ==
  LET s1 == [session EXCEPT !.messages = Append(@, data)]
      s2 == IF Truthy(data.uuid) /\ data.uuid \in DOMAIN leafs
            THEN [s1 EXCEPT !.summary = leafs[data.uuid]] ELSE s1
      timed == updateTimestamps(data, s2)
      gen == extractSummaryFromMessage(data)
      s3 == IF timed.generatedSummary = EmptyStr /\ data.type = "user" /\ ~data.isMeta
               /\ gen # EmptyStr /\ gen # <<"Untitled">>
            THEN [timed EXCEPT !.generatedSummary = gen] ELSE timed
  IN IF data.type \in {"user", "assistant"}
     THEN [s3 EXCEPT !.messageCount = @ + 1] ELSE s3

RECURSIVE processSessionMessages(_, _, _)
processSessionMessages(messages, session, leafs) ==
  IF messages = <<>> THEN session
  ELSE processSessionMessages(Tail(messages),
         processSessionMessage(Head(messages), session, leafs), leafs)

\* createSession storing a session even when it counts no message
createSession_keepsUncounted(sess, sessionId, messages, leafs) ==
  IF Len(messages) = 0 THEN sess
  ELSE MapSet(sess, sessionId,
              processSessionMessages(messages, NewSession(sessionId), leafs))

createSession(sess, sessionId, messages, leafs) ==
  IF Len(messages) = 0 THEN sess
  ELSE LET session == processSessionMessages(messages, NewSession(sessionId), leafs)
       IN IF session.messageCount > 0 THEN MapSet(sess, sessionId, session) ELSE sess

\* the indices of the records that have summaries, ascending
summaryMessageIndices(messages, leafs) ==
  {i \in 1..Len(messages) : Truthy(messages[i].uuid) /\ messages[i].uuid \in DOMAIN leafs}

ChunkId(baseSessionId, sessionCounter) ==
  IF sessionCounter = 0 THEN baseSessionId
  ELSE baseSessionId \o "_" \o ToString(sessionCounter)

\* the loop over sortedIndices without the handling of the records that
\* remain after the last summary
RECURSIVE splitLoop_dropsRemainder(_, _, _, _, _, _)
splitLoop_dropsRemainder(sess, baseSessionId, messages, leafs, currentStart, sessionCounter) ==
  LET rest == {i \in summaryMessageIndices(messages, leafs) : i >= currentStart}
  IN IF rest = {} THEN sess
     ELSE LET summaryIndex == CHOOSE i \in rest : \A j \in rest : i <= j
          IN splitLoop_dropsRemainder(
               createSession(sess, ChunkId(baseSessionId, sessionCounter),
                             SubSeq(messages, currentStart, summaryIndex), leafs),
               baseSessionId, messages, leafs, summaryIndex + 1, sessionCounter + 1)

\* the loop over sortedIndices (lines 206-214) and the remainder (216-221);
\* currentStart is the 1-based index of the first record not yet emitted
RECURSIVE splitLoop(_, _, _, _, _, _)
splitLoop(sess, baseSessionId, messages, leafs, currentStart, sessionCounter) ==
  LET rest == {i \in summaryMessageIndices(messages, leafs) : i >= currentStart}
  IN IF rest = {}
     THEN IF currentStart <= Len(messages)
          THEN createSession(sess, baseSessionId \o "_" \o ToString(sessionCounter),
                             SubSeq(messages, currentStart, Len(messages)), leafs)
          ELSE sess
     ELSE LET summaryIndex == CHOOSE i \in rest : \A j \in rest : i <= j
          IN splitLoop(createSession(sess, ChunkId(baseSessionId, sessionCounter),
                                     SubSeq(messages, currentStart, summaryIndex), leafs),
                       baseSessionId, messages, leafs, summaryIndex + 1, sessionCounter + 1)

splitSessionBySummaries(sess, baseSessionId, messages, leafs) ==
  IF summaryMessageIndices(messages, leafs) = {}
  THEN createSession(sess, baseSessionId, messages, leafs)
  ELSE splitLoop(sess, baseSessionId, messages, leafs, 1, 0)

RECURSIVE splitAll(_, _, _)
splitAll(sess, groups, leafs) ==
  IF groups = <<>> THEN sess
  ELSE splitAll(splitSessionBySummaries(sess, Head(groups).key, Head(groups).value, leafs),
                Tail(groups), leafs)

\* parseInput as a function of its input (a fresh or cleared parser)
parseInput(in) ==
  LET lines == InputLines(in)
      leafs == collectSummaries(lines, EmptyObject)
  IN splitAll(<<>>, groupMessages(lines, <<>>), leafs)

-----------------------------------------------------------------------------
(* Paths: src/unnamed/part_000:211-246.  A path is a Str whose tokens are  *)
(* "/", ".", ".." and name parts.                                          *)

\* process.cwd()
ProcessCwd == <<"/", "home">>

PathSegments(p) == SelectSeq(Split(p, "/"), LAMBDA seg : seg # <<>>)

\* path.resolve's normalisation of "." and ".." segments
RECURSIVE NormalizeSegments(_, _)
NormalizeSegments(segs, acc) ==
  IF segs = <<>> THEN acc
  ELSE IF Head(segs) = <<".">> THEN NormalizeSegments(Tail(segs), acc)
  ELSE IF Head(segs) = <<"..">>
       THEN NormalizeSegments(Tail(segs),
                              IF acc = <<>> THEN acc ELSE SubSeq(acc, 1, Len(acc) - 1))
  ELSE NormalizeSegments(Tail(segs), Append(acc, Head(segs)))

\* path.resolve(p), as the sequence of its segments
PathResolve(p) ==
  NormalizeSegments((IF p # <<>> /\ p[1] = "/" THEN <<>> ELSE PathSegments(ProcessCwd))
                      \o PathSegments(p), <<>>)

RenderAbsolute(segs) == <<"/">> \o Join(segs, <<"/">>)

RECURSIVE CommonPrefixLen(_, _)
CommonPrefixLen(a, b) ==
  IF a = <<>> \/ b = <<>> \/ Head(a) # Head(b) THEN 0
  ELSE 1 + CommonPrefixLen(Tail(a), Tail(b))

\* path.relative(from, to) on resolved paths
PathRelative(from, to) ==
  LET n == CommonPrefixLen(from, to)
  IN Join([i \in 1..(Len(from) - n) |-> <<"..">>] \o SubSeq(to, n + 1, Len(to)), <<"/">>)

\* path.join(dir, rel) for an absolute dir
PathJoin(dir, rel) ==
  RenderAbsolute(NormalizeSegments(PathSegments(dir) \o PathSegments(rel), <<>>))

\* .replace(/\\/g, '/')
ForwardSlashes(p) == [i \in 1..Len(p) |-> IF p[i] = "\\" THEN "/" ELSE p[i]]

\* makeRelativePath that hands the path back when no cwd is given
makeRelativePath_unchangedWithoutCwd(filePath, currentCwd) ==
  IF filePath = EmptyStr \/ currentCwd = EmptyStr THEN filePath
  ELSE LET normalizedPath == PathResolve(filePath)
           normalizedCwd == PathResolve(currentCwd)
           relativePath == PathRelative(normalizedCwd, normalizedPath)
       IN ForwardSlashes(IF relativePath = EmptyStr THEN <<".">> ELSE relativePath)

\* path.resolve does not throw on a string, so the catch branch (part_000:242-245)
\* is never taken
makeRelativePath(filePath, currentCwd) ==
  IF filePath = EmptyStr THEN EmptyStr
  ELSE LET cwd == IF currentCwd # EmptyStr THEN currentCwd ELSE ProcessCwd
           normalizedPath == PathResolve(filePath)
           normalizedCwd == PathResolve(cwd)
           relativePath == PathRelative(normalizedCwd, normalizedPath)
       IN IF StartsWith(RenderAbsolute(normalizedPath), RenderAbsolute(normalizedCwd))
          THEN ForwardSlashes(IF relativePath = EmptyStr THEN <<".">> ELSE relativePath)
          ELSE ForwardSlashes(relativePath)

-----------------------------------------------------------------------------
(* Language inference: src/src/utils/language.ts *)

\* SPECIAL_FILE_LANGUAGES and LANGUAGE_BY_EXTENSION (constants.ts:3-48),
\* restricted to the file names of the model's inputs
SpecialFileLanguage(basename) ==
  IF basename = <<"Makefile">> THEN <<"makefile">>
  ELSE IF basename = <<"Dockerfile">> THEN <<"dockerfile">>
  ELSE EmptyStr

ExtensionLanguage(ext) ==
  IF ext \in {"ts", "tsx", "TS"} THEN <<"typescript">>
  ELSE IF ext \in {"js", "jsx"} THEN <<"javascript">>
  ELSE IF ext = "md" THEN <<"markdown">>
  ELSE IF ext = "py" THEN <<"python">>
  ELSE EmptyStr

detectLanguageFromPath(filePath) ==
  IF filePath = EmptyStr THEN EmptyStr
  ELSE LET segs == PathSegments(filePath)
           basename == IF segs = <<>> THEN EmptyStr ELSE segs[Len(segs)]
           dots == {i \in 2..Len(basename) : basename[i] = "."}
       IN IF SpecialFileLanguage(basename) # EmptyStr THEN SpecialFileLanguage(basename)
          ELSE IF dots = {} \/ basename[Len(basename)] = "." THEN EmptyStr
          ELSE ExtensionLanguage(basename[Len(basename)])

FirstWord(s) == IF TrimLeft(s) = <<>> THEN "" ELSE Head(TrimLeft(s))

\* some line of the content starts (after blanks) with one of the words
LineStartsWith(content, words) ==
  \E i \in 1..Len(Split(content, "\n")) : FirstWord(Split(content, "\n")[i]) \in words

TsKeywords ==
  {"import", "export", "function", "const", "let", "var", "class", "interface", "type"}

\* the keyword patterns of detectCodeLanguage, in order (the json, yaml,
\* html and css patterns need '{', '[', ':', '<', '#' tokens, which the
\* contents of the model never hold)
detectCodeLanguage(content) ==
  IF content = EmptyStr THEN EmptyStr
  ELSE IF FirstWord(content) \in TsKeywords THEN <<"typescript">>
  ELSE IF LineStartsWith(content, {"def", "class", "import", "from"}) THEN <<"python">>
  ELSE IF LineStartsWith(content, {"public", "private", "protected", "class",
                                   "interface", "package"}) THEN <<"java">>
  ELSE IF LineStartsWith(content, {"#include"}) THEN <<"cpp">>
  ELSE IF LineStartsWith(content, {"func", "package", "import", "var", "const"})
       THEN <<"go">>
  ELSE IF LineStartsWith(content, {"fn", "let", "mut", "use", "impl", "struct"})
       THEN <<"rust">>
  ELSE IF LineStartsWith(content, {"class", "def", "module", "require", "include"})
       THEN <<"ruby">>
  ELSE IF LineStartsWith(content, {"namespace", "use", "class", "function"}) THEN <<"php">>
  ELSE IF LineStartsWith(content, {"SELECT", "INSERT", "UPDATE", "DELETE", "CREATE",
                                   "ALTER", "DROP"}) THEN <<"sql">>
  ELSE EmptyStr

-----------------------------------------------------------------------------
(* ToolResultProcessor: src/unnamed/part_003 *)

\* the fence and the backquote of Markdown (a TLA+ string cannot hold the
\* backquote character, so the two tokens are named)
Fence == "<3 backquotes>"
Backquote == "<backquote>"

\* the context's toolCallMap[toolUseId], [found |-> FALSE] when undefined
NoToolCall == [found |-> FALSE, item |-> ContentItem]

LookupToolCall(ctx, toolUseId) ==
  IF Truthy(toolUseId) /\ toolUseId \in DOMAIN ctx.toolCallMap
  THEN [found |-> TRUE, item |-> ctx.toolCallMap[toolUseId]]
  ELSE NoToolCall

IsDigits(tok) == tok \in {ToString(n) : n \in 0..99}

\* /^\s*\d+→/
LineNumberPrefixLen(s) ==
  LET t == TrimLeft(s)
  IN IF Len(t) >= 2 /\ IsDigits(t[1]) /\ t[2] = "→" THEN (Len(s) - Len(t)) + 2 ELSE 0

hasLineNumbers(content) == LineNumberPrefixLen(content) > 0

\* MessageWrapper.stripLineNumbers (MessageWrapper.ts:208-213)
stripLineNumbers(content) ==
  Join([i \in 1..Len(Split(content, "\n")) |->
          LET line == Split(content, "\n")[i]
          IN SubSeq(line, LineNumberPrefixLen(line) + 1, Len(line))],
       <<"\n">>)

\* /^Found \d+ files/
FoundFilesPrefix(content) ==
  /\ Len(content) >= 5
  /\ content[1] = "Found" /\ content[2] = " " /\ IsDigits(content[3])
  /\ content[4] = " " /\ content[5] = "files"

\* /^\/.*\..*$/ : one line, starting with '/', holding a '.'
BarePathLine(content) ==
  /\ content # <<>> /\ content[1] = "/"
  /\ \A i \in 1..Len(content) : content[i] # "\n"
  /\ \E i \in 1..Len(content) : content[i] = "."

isCodeContent(content) ==
  \/ FoundFilesPrefix(content) \/ BarePathLine(content)
  \/ FirstWord(content) \in TsKeywords

\* shouldTruncateLS; the command of a Bash tool use is tokenised by character:
\* /^(ls|LS)(\s|$)/
LsCommand(command) ==
  /\ StartsWith(command, <<"l", "s">>) \/ StartsWith(command, <<"L", "S">>)
  /\ Len(command) = 2 \/ IsSpace(command[3])

\* shouldTruncateLS matching every Bash command that begins with ls or LS
shouldTruncateLS_prefix(toolCall) ==
  IF ~toolCall.found THEN FALSE
  ELSE \/ toolCall.item.name = "LS"
       \/ /\ toolCall.item.name = "Bash"
          /\ \/ StartsWith(toolCall.item.input.command, <<"l", "s">>)
             \/ StartsWith(toolCall.item.input.command, <<"L", "S">>)

shouldTruncateLS(toolCall) ==
  IF ~toolCall.found THEN FALSE
  ELSE \/ toolCall.item.name = "LS"
       \/ toolCall.item.name = "Bash" /\ LsCommand(toolCall.item.input.command)

\* options.maxLines of the LS truncation (hard-coded in formatTruncatedContent)
TruncateLines == 50

formatTruncatedContent(content) ==
  LET lines == Split(content, "\n")
  IN <<<<Fence>>>>
     \o (IF Len(lines) > TruncateLines
         THEN SubSeq(lines, 1, TruncateLines)
              \o <<<<"\n", "... (", ToString(Len(lines) - TruncateLines), " more lines)">>>>
         ELSE <<content>>)
     \o <<<<Fence>>>>

formatFileContent(content, toolCall) ==
  LET filePath == IF toolCall.found THEN toolCall.item.input.file_path ELSE EmptyStr
      language == IF filePath # EmptyStr THEN detectLanguageFromPath(filePath) ELSE EmptyStr
  IN << <<Fence>> \o language, stripLineNumbers(content), <<Fence>> >>

formatCodeContent(content) ==
  << <<Fence>> \o detectCodeLanguage(content), content, <<Fence>> >>

formatPlainContent(content) == << <<Fence>>, content, <<Fence>> >>

formatToolContent(content, toolUseId, ctx) ==
  LET toolCall == LookupToolCall(ctx, toolUseId)
  IN IF shouldTruncateLS(toolCall) THEN formatTruncatedContent(content)
     ELSE IF hasLineNumbers(content) THEN formatFileContent(content, toolCall)
     ELSE IF isCodeContent(content) THEN formatCodeContent(content)
     ELSE formatPlainContent(content)

\* number of characters of a string
RECURSIVE StrLen(_)
StrLen(s) ==
  IF s = <<>> THEN 0
  ELSE IF Len(s) = 1 THEN Len(s[1])
  ELSE StrLen(SubSeq(s, 1, Len(s) \div 2)) + StrLen(SubSeq(s, Len(s) \div 2 + 1, Len(s)))

FirstLine(content) == Split(content, "\n")[1]

createContentBasedSummary(content) ==
  IF hasLineNumbers(content)
  THEN <<"<b>Read:</b> file content (", ToString(Len(Split(content, "\n"))), " lines)">>
  ELSE IF FoundFilesPrefix(content) THEN <<"<b>Search:</b> ">> \o FirstLine(content)
  ELSE IF BarePathLine(content)
       THEN <<"<b>Search:</b> found ", ToString(Len(Split(content, "\n"))), " file(s)">>
  ELSE IF \E i \in 1..(Len(FirstLine(content)) - 1) :
            <<FirstLine(content)[i], FirstLine(content)[i + 1]>> \in
              {<<"has been", " updated">>, <<"created", " successfully">>,
               <<"deleted", " successfully">>}
       THEN <<"<b>Edit:</b> ">> \o FirstLine(content)
  ELSE IF StartsWith(content, <<"Tool ran without output">>)
          \/ StartsWith(content, <<"Command completed">>)
       THEN <<"<b>Command:</b> executed successfully">>
  ELSE IF Len(content) >= 3 /\ content[1] = "Received" /\ content[2] = " "
          /\ IsDigits(content[3])
       THEN <<"<b>Fetch:</b> ">> \o FirstLine(content)
  ELSE <<"<b>Tool result:</b> ", ToString(StrLen(content)), " characters">>

formatReadSummary(toolInput, ctx) ==
  LET rel == makeRelativePath(toolInput.file_path, ctx.currentCwd)
      filePath == IF rel # EmptyStr THEN rel ELSE <<"unknown file">>
  IN <<"<b>Read:</b> <code>">> \o filePath \o <<"</code>">>

formatBashSummary(toolInput) ==
  LET command == toolInput.command
      displayCommand == IF StartsWith(command, <<"L", "S", " ">>)
                        THEN <<"l", "s", " ">> \o SubSeq(command, 4, Len(command))
                        ELSE command
      finalCommand == IF displayCommand = <<"L", "S">> THEN <<"l", "s">> ELSE displayCommand
  IN <<"<b>Bash:</b> <code>">> \o finalCommand \o <<"</code>">>

formatLSSummary(toolInput, ctx) ==
  <<"<b>ls:</b> <code>">>
  \o (IF toolInput.path # EmptyStr THEN makeRelativePath(toolInput.path, ctx.currentCwd)
      ELSE <<"current directory">>)
  \o <<"</code>">>

\* Object.keys(input) of the model's tool inputs, with the values as strings
InputPairs(toolInput) ==
  (IF toolInput.file_path # EmptyStr THEN <<<<"file_path", toolInput.file_path>>>> ELSE <<>>)
  \o (IF toolInput.command # EmptyStr THEN <<<<"command", toolInput.command>>>> ELSE <<>>)
  \o (IF toolInput.path # EmptyStr THEN <<<<"path", toolInput.path>>>> ELSE <<>>)

formatToolInputHtml(toolInput) ==
  LET pairs == InputPairs(toolInput)
  IN IF Len(pairs) = 1 THEN <<"<code>">> \o pairs[1][2] \o <<"</code>">>
     ELSE <<"<code>">>
          \o Join([i \in 1..Len(pairs) |-> <<pairs[i][1], ": ">> \o pairs[i][2]], <<", ">>)
          \o <<"</code>">>

createToolResultSummary(content, toolUseId, ctx) ==
  LET toolCall == LookupToolCall(ctx, toolUseId)
      toolName == toolCall.item.name
      toolInput == toolCall.item.input
  IN IF ~toolCall.found THEN createContentBasedSummary(content)
     ELSE IF toolName = "TodoWrite" THEN <<"<b>TodoWrite:</b> Updated task list">>
     ELSE IF toolName = "Read" THEN formatReadSummary(toolInput, ctx)
     ELSE IF toolName = "Edit"
          THEN <<"<b>Edit:</b> <code>">>
               \o makeRelativePath(toolInput.file_path, ctx.currentCwd) \o <<"</code>">>
     ELSE IF toolName = "Bash" THEN formatBashSummary(toolInput)
     ELSE IF toolName = "Write"
          THEN <<"<b>Write:</b> <code>">>
               \o makeRelativePath(toolInput.file_path, ctx.currentCwd) \o <<"</code>">>
     ELSE IF toolName = "LS" THEN formatLSSummary(toolInput, ctx)
     ELSE <<"<b>", toolName, ":</b> ">> \o formatToolInputHtml(toolInput)

formatRegularToolResult(content, toolUseId, ctx) ==
  << <<"<details><summary>">> \o createToolResultSummary(content, toolUseId, ctx)
       \o <<"</summary>">>,
     EmptyStr >>
  \o formatToolContent(content, toolUseId, ctx)
  \o << <<"</details>">>, EmptyStr >>

\* formatTodoList ticking the todos in progress too
formatTodoList_ticksInProgress(toolInput) ==
  IF ~toolInput.hasTodos THEN <<>>
  ELSE [i \in 1..Len(toolInput.todos) |->
          <<"- ", IF toolInput.todos[i].status \in {"completed", "in_progress"}
                  THEN "[x]" ELSE "[ ]", " ">>
          \o toolInput.todos[i].content
          \o (IF toolInput.todos[i].status = "in_progress" THEN <<" (in progress)">>
              ELSE EmptyStr)]

formatTodoList(toolInput) ==
  IF ~toolInput.hasTodos THEN <<>>
  ELSE [i \in 1..Len(toolInput.todos) |->
          <<"- ", IF toolInput.todos[i].status = "completed" THEN "[x]" ELSE "[ ]", " ">>
          \o toolInput.todos[i].content
          \o (IF toolInput.todos[i].status = "in_progress" THEN <<" (in progress)">>
              ELSE EmptyStr)]

formatTodoWrite(toolCall) ==
  << <<"**Updated task list**">>, EmptyStr >>
  \o formatTodoList(toolCall.item.input)
  \o <<EmptyStr>>

formatStructuredPatch(ctx) ==
  LET filePath == ctx.currentToolUseResult.filePath
      structuredPatch == ctx.currentToolUseResult.structuredPatch
  IN IF filePath = EmptyStr THEN <<>>
     ELSE << <<"**Edit:** ", Backquote>> \o makeRelativePath(filePath, ctx.currentCwd) \o <<Backquote>>,
             EmptyStr, <<Fence, "diff">> >>
          \o Flatten([h \in 1..Len(structuredPatch) |-> structuredPatch[h].lines])
          \o << <<Fence>>, EmptyStr >>

\* the text of a tool result's content (lines 36-45)
ToolResultText(toolResult) ==
  IF toolResult.content.isArray
  THEN Join([i \in 1..Len(SelectSeq(toolResult.content.items, LAMBDA it : it.type = "text")) |->
               SelectSeq(toolResult.content.items, LAMBDA it : it.type = "text")[i].text],
            <<"\n">>)
  ELSE toolResult.content.text

formatToolResult(toolResult, ctx) ==
  LET content == ToolResultText(toolResult)
      toolUseId == toolResult.tool_use_id
      toolCall == LookupToolCall(ctx, toolUseId)
  IN IF ctx.currentToolUseResult.defined /\ ctx.currentToolUseResult.hasPatch
     THEN formatStructuredPatch(ctx)
     ELSE IF toolCall.found /\ toolCall.item.name = "TodoWrite" THEN formatTodoWrite(toolCall)
     ELSE formatRegularToolResult(content, toolUseId, ctx)

\* formatToolResults rendering the queue from its end
formatToolResults_reversed(toolResults, ctx) ==
  Flatten([i \in 1..Len(toolResults) |->
             formatToolResult(toolResults[Len(toolResults) + 1 - i], ctx)])

formatToolResults(toolResults, ctx) ==
  Flatten([i \in 1..Len(toolResults) |-> formatToolResult(toolResults[i], ctx)])

-----------------------------------------------------------------------------
(* MessageProcessor: src/unnamed/part_004.  An operator that the code runs  *)
(* for its effect on this.context returns [result, context].                *)

\* the emoji of the two notices (a TLA+ string cannot hold them)
CrossMark == "<cross mark>"
Broom == "<broom>"

CancelNotice == <<"**", CrossMark, " User cancelled tool execution**">>
ClearNotice == <<"**", Broom, " User cleared the session**">>

\* the context the constructor creates (lines 12-18); currentCwd and
\* currentToolUseResult are absent from it
NewProcessingContext ==
  [pendingTools |-> <<>>, pendingToolResults |-> <<>>, toolCallMap |-> EmptyObject,
   currentCwd |-> EmptyStr, currentToolUseResult |-> NoToolUseResult]

\* resetContext keeping the tool uses registered so far
resetContext_keepsToolCallMap(ctx) ==
  [NewProcessingContext EXCEPT !.toolCallMap = ctx.toolCallMap]

\* resetContext keeping the working directory
resetContext_keepsCwd(ctx) ==
  [NewProcessingContext EXCEPT !.currentCwd = ctx.currentCwd]

resetContext(ctx) == NewProcessingContext

\* JSON.stringify(contentItem), as far as the item's type
JsonStringify(item) == <<"{\"type\":\"", item.type, "\",...}">>

\* MessageWrapper.extractTextFromContentItem (MessageWrapper.ts:168-184)
RECURSIVE extractTextFromContentItem(_)
extractTextFromContentItem(item) ==
  IF item.type = "text" THEN item.text
  ELSE IF item.type # "tool_result" THEN JsonStringify(item)
  ELSE IF ~item.content.isArray THEN item.content.text
  ELSE Join([i \in 1..Len(item.content.items) |->
               extractTextFromContentItem(item.content.items[i])], <<"\n">>)

\* lines.forEach(line => result.push('> ' + line))
Quoted(text) == [i \in 1..Len(Split(text, "\n")) |-> <<"> ">> \o Split(text, "\n")[i]]

\* outputUserContent pushing the lines without the quote mark
outputUserContent_unquoted(contentItems) ==
  << <<"### User">>, EmptyStr >>
  \o Flatten([i \in 1..Len(contentItems) |->
                Split(extractTextFromContentItem(contentItems[i]), "\n")])
  \o <<EmptyStr>>

outputUserContent(contentItems) ==
  << <<"### User">>, EmptyStr >>
  \o Flatten([i \in 1..Len(contentItems) |-> Quoted(extractTextFromContentItem(contentItems[i]))])
  \o <<EmptyStr>>

outputAssistantText(text) == << <<"### Assistant">>, EmptyStr, text, EmptyStr >>

outputAssistantTextItems(textItems) ==
  << <<"### Assistant">>, EmptyStr >>
  \o Flatten([i \in 1..Len(textItems) |-> <<textItems[i].text, EmptyStr>>])

\* the longest prefix of whole tokens of s with at most n characters
\* (substring(0, n) when a token ends at character n)
RECURSIVE TakeChars(_, _)
TakeChars(s, n) ==
  IF s = <<>> \/ Len(Head(s)) > n THEN <<>>
  ELSE <<Head(s)>> \o TakeChars(Tail(s), n - Len(Head(s)))

\* the length at which handleMetaMessage cuts the summary line
MetaSummaryLength == 50

handleMetaMessage(d) ==
  LET contentText == getTextContent(d)
      firstLine == Split(contentText, "\n")[1]
      summaryText == IF firstLine # EmptyStr THEN firstLine ELSE contentText
      truncatedSummary == IF StrLen(summaryText) > MetaSummaryLength
                          THEN TakeChars(summaryText, MetaSummaryLength) \o <<"...">>
                          ELSE summaryText
  IN IF contentText = EmptyStr THEN <<>>
     ELSE << <<"<details><summary>">> \o truncatedSummary \o <<"</summary>">>, EmptyStr >>
          \o Quoted(contentText)
          \o << EmptyStr, <<"</details>">>, EmptyStr >>

handleCommandMessage(command) ==
  IF command.name = <<"/clear">> THEN <<ClearNotice, EmptyStr>>
  ELSE << <<"### User">>, EmptyStr,
          IF command.args # EmptyStr
          THEN <<"> ">> \o command.name \o <<" \"">> \o command.args \o <<"\"">>
          ELSE <<"> ">> \o command.name,
          EmptyStr >>

handleStringMessage(d) ==
  IF isEmptyCommandOutput(d) THEN <<>>
  ELSE IF isCommand(d) THEN handleCommandMessage(extractCommand(d))
  ELSE outputUserContent(<<TextItem(d.content.text)>>)

\* lines 165-204, for their effect on currentToolUseResult: each cancelled
\* Edit with a complete input installs a patch made of its old and new lines
RECURSIVE setUpCancelledEdits(_, _)
setUpCancelledEdits(errorResults, ctx) ==
  IF errorResults = <<>> THEN ctx
  ELSE LET toolCall == LookupToolCall(ctx, Head(errorResults).tool_use_id)
           in == toolCall.item.input
           oldLines == Split(in.old_string, "\n")
           newLines == Split(in.new_string, "\n")
           diffLines == [i \in 1..Len(oldLines) |-> <<"-">> \o oldLines[i]]
                        \o [i \in 1..Len(newLines) |-> <<"+">> \o newLines[i]]
       IN setUpCancelledEdits(Tail(errorResults),
            IF /\ toolCall.found /\ toolCall.item.name = "Edit"
               /\ in.file_path # EmptyStr /\ in.old_string # EmptyStr
               /\ in.new_string # EmptyStr
            THEN [ctx EXCEPT !.currentToolUseResult =
                    [defined |-> TRUE, hasPatch |-> TRUE, filePath |-> in.file_path,
                     structuredPatch |-> <<[lines |-> diffLines]>>]]
            ELSE ctx)

handleToolResults(toolResults, messages, index, ctx) ==
  LET errorResults == SelectSeq(toolResults, LAMBDA r : r.is_error)
      cancelledResults == [i \in 1..Len(errorResults) |->
                             [errorResults[i] EXCEPT !.is_error = FALSE]]
  IN IF Len(errorResults) > 0
     THEN [result |-> <<CancelNotice, EmptyStr>>,
           context |-> [setUpCancelledEdits(errorResults, ctx) EXCEPT
                          !.pendingToolResults = @ \o cancelledResults]]
     ELSE [result |-> <<>>,
           context |-> [ctx EXCEPT !.pendingToolResults = @ \o toolResults]]

handleArrayMessage(d, messages, index, ctx) ==
  LET toolResults == getToolResults(d)
      regularContent == getRegularContent(d)
      handled == IF Len(toolResults) > 0
                 THEN handleToolResults(toolResults, messages, index, ctx)
                 ELSE [result |-> <<>>, context |-> ctx]
  IN [result |-> handled.result
                 \o (IF Len(regularContent) > 0 /\ ~isInterruptionMessage(d)
                     THEN outputUserContent(regularContent) ELSE <<>>),
      context |-> handled.context]

processUserMessage(d, messages, index, ctx) ==
  IF isCaveatMessage(d) \/ isApiError(d) THEN [result |-> <<>>, context |-> ctx]
  ELSE IF d.isMeta THEN [result |-> handleMetaMessage(d), context |-> ctx]
  ELSE LET stored == [ctx EXCEPT !.currentToolUseResult = d.toolUseResult]
       IN IF isContentArray(d) THEN handleArrayMessage(d, messages, index, stored)
          ELSE [result |-> handleStringMessage(d), context |-> stored]

\* toolUses.forEach registering the tool uses without queueing them
RECURSIVE storeToolUses_registersOnly(_, _)
storeToolUses_registersOnly(toolUses, ctx) ==
  IF toolUses = <<>> THEN ctx
  ELSE LET toolUse == Head(toolUses)
       IN storeToolUses_registersOnly(Tail(toolUses),
            IF Truthy(toolUse.id)
            THEN [ctx EXCEPT !.toolCallMap = (toolUse.id :> toolUse) @@ @]
            ELSE ctx)

\* toolUses.forEach (lines 309-315)
RECURSIVE storeToolUses(_, _)
storeToolUses(toolUses, ctx) ==
  IF toolUses = <<>> THEN ctx
  ELSE LET toolUse == Head(toolUses)
           pushed == [ctx EXCEPT !.pendingTools = Append(@, toolUse)]
       IN storeToolUses(Tail(toolUses),
            IF Truthy(toolUse.id)
            THEN [pushed EXCEPT !.toolCallMap = (toolUse.id :> toolUse) @@ @]
            ELSE pushed)

handleAssistantArrayContent(d, messages, index, ctx) ==
  LET textContent == SelectSeq(d.content.items, LAMBDA it : it.type = "text")
      toolUses == getToolUses(d)
  IN IF Len(toolUses) > 0
     THEN [result |-> IF Len(textContent) > 0 THEN outputAssistantTextItems(textContent)
                      ELSE <<>>,
           context |-> storeToolUses(toolUses, ctx)]
     ELSE [result |-> IF Len(textContent) > 0 THEN outputAssistantTextItems(textContent)
                      ELSE <<>>,
           context |-> ctx]

processAssistantMessage(d, messages, index, ctx) ==
  IF isApiError(d) THEN [result |-> <<>>, context |-> ctx]
  ELSE IF isContentArray(d) THEN handleAssistantArrayContent(d, messages, index, ctx)
  ELSE [result |-> outputAssistantText(d.content.text), context |-> ctx]

\* processMessage taking the working directory from the first record that
\* carries one only
processMessage_firstCwdStays(d, messages, index, ctx) ==
  LET moved == IF d.cwd # EmptyStr /\ ctx.currentCwd = EmptyStr
               THEN [ctx EXCEPT !.currentCwd = d.cwd] ELSE ctx
  IN IF d.type = "user" THEN processUserMessage(d, messages, index, moved)
     ELSE IF d.type = "assistant" THEN processAssistantMessage(d, messages, index, moved)
     ELSE [result |-> <<>>, context |-> moved]

\* MessageProcessor.processMessage; index is the 1-based position of d
processMessage(d, messages, index, ctx) ==
  LET moved == IF d.cwd # EmptyStr THEN [ctx EXCEPT !.currentCwd = d.cwd] ELSE ctx
  IN IF d.type = "user" THEN processUserMessage(d, messages, index, moved)
     ELSE IF d.type = "assistant" THEN processAssistantMessage(d, messages, index, moved)
     ELSE [result |-> <<>>, context |-> moved]

-----------------------------------------------------------------------------
(* MarkdownFormatter: src/src/parsers/SessionParser.test.ts:391-677 *)

\* hasNextToolResults never seeing a continuation
hasNextToolResults_never(messages, index) == FALSE

\* lines 491-494: the record after index is a user record with a tool_result
hasNextToolResults(messages, index) ==
  /\ index + 1 <= Len(messages)
  /\ messages[index + 1].type = "user"
  /\ isContentArray(messages[index + 1])
  /\ \E i \in 1..Len(messages[index + 1].content.items) :
       messages[index + 1].content.items[i].type = "tool_result"

\* lines 506-508 and 530-532
\* the clearing after a flush leaving the rendered results in the queue
clearPending_keepsResults(ctx) ==
  [ctx EXCEPT !.pendingTools = <<>>, !.currentToolUseResult = NoToolUseResult]

\* the clearing after a flush also forgetting the registered tool uses
clearPending_dropsToolCalls(ctx) ==
  [ctx EXCEPT !.pendingToolResults = <<>>, !.pendingTools = <<>>,
              !.toolCallMap = EmptyObject,
              !.currentToolUseResult = NoToolUseResult]

clearPending(ctx) ==
  [ctx EXCEPT !.pendingToolResults = <<>>, !.pendingTools = <<>>,
                  !.currentToolUseResult = NoToolUseResult]

\* MarkdownFormatter.processMessage (lines 477-515); processed is what
\* messageProcessor.processMessage returned and left in the context
formatMessage(d, messages, index, ctx) ==
  LET processed == processMessage(d, messages, index, ctx)
  IN IF Len(processed.context.pendingToolResults) > 0 /\ ~hasNextToolResults(messages, index)
     THEN [result |-> processed.result
                      \o formatToolResults(processed.context.pendingToolResults,
                                           processed.context),
           context |-> clearPending(processed.context),
           processed |-> processed,
           flushed |-> processed.context.pendingToolResults]
     ELSE [result |-> processed.result, context |-> processed.context,
           processed |-> processed, flushed |-> <<>>]

\* MarkdownFormatter.flushPendingToolResults (lines 520-535)
flushPendingToolResults(ctx) ==
  IF Len(ctx.pendingToolResults) = 0 THEN [result |-> <<>>, context |-> ctx, flushed |-> <<>>]
  ELSE [result |-> formatToolResults(ctx.pendingToolResults, ctx),
        context |-> clearPending(ctx), flushed |-> ctx.pendingToolResults]

\* session.summary || session.generatedSummary || 'Untitled' (line 439)
sessionTitle(session) ==
  IF session.summary # EmptyStr THEN session.summary
  ELSE IF session.generatedSummary # EmptyStr THEN session.generatedSummary
  ELSE <<"Untitled">>

\* the first two lines convertSession pushes (line 448)
titleLines(session) == << <<"# ">> \o sessionTitle(session), EmptyStr >>

\* convertSession's forEach (lines 451-460) from record index on
RECURSIVE convertMessages(_, _, _, _)
convertMessages(messages, index, ctx, out) ==
  IF index > Len(messages) THEN [output |-> out, context |-> ctx]
  ELSE LET formatted == formatMessage(messages[index], messages, index, ctx)
       IN convertMessages(messages, index + 1, formatted.context, out \o formatted.result)

\* convertSession as a function of the session and of the context the
\* processor holds when it is called
convertSession(sess, ctx) ==
  LET done == convertMessages(sess.messages, 1, resetContext(ctx), titleLines(sess))
      flushed == flushPendingToolResults(done.context)
  IN [markdown |-> Join(done.output \o flushed.result, <<"\n">>),
      context |-> flushed.context]

\* results.join('\n\n---\n\n') (line 425)
SessionSeparator == <<"\n", "\n", "---", "\n", "\n">>

-----------------------------------------------------------------------------
(* Inputs of the parser specification *)

Hello == <<"Hello">>

JsonLine(d) == [kind |-> "json", data |-> d]
GarbageLine == [kind |-> "garbage", data |-> MessageData]
BlankLine == [kind |-> "blank", data |-> MessageData]

ParserLineSet ==
  {GarbageLine}
  \cup {JsonLine([MessageData EXCEPT !.type = "summary", !.leafUuid = "u1", !.summary = t]) :
          t \in {<<"First">>, <<"Second">>}}
  \cup {JsonLine([MessageData EXCEPT !.type = "user", !.sessionId = sid, !.uuid = u,
                                     !.content = StringContent(Hello)]) :
          sid \in {"s", "s_1"}, u \in {Undefined, "u1"}}
  \cup {JsonLine([MessageData EXCEPT !.type = "user", !.content = StringContent(Hello)]),
        JsonLine([MessageData EXCEPT !.type = "summary", !.sessionId = "s",
                                     !.leafUuid = "u1", !.summary = <<"First">>]),
        JsonLine([MessageData EXCEPT !.type = "system", !.sessionId = "s"]),
        JsonLine([MessageData EXCEPT !.type = "assistant", !.sessionId = "s",
                                     !.content = StringContent(<<"Hi">>)])}

\* the object JSON.parse creates for line i
Numbered(f) ==
  [i \in DOMAIN f |-> [f[i] EXCEPT !.data = [f[i].data EXCEPT !.line = i]]]

InputsOver(lineSet, maxLen) ==
  UNION {{Numbered(f) : f \in [1..n -> lineSet]} : n \in 0..maxLen}

-----------------------------------------------------------------------------
(* SessionParser.parseInput, step by step *)

InitParse ==
  /\ input \in InputsOver(ParserLineSet, MaxLines)
  /\ pc = "parseInput"
  /\ summaryLeafs = EmptyObject
  /\ sessionGroups = <<>>
  /\ gi = 1
  /\ sessions = <<>>
  /\ context = NewProcessingContext
  /\ jobs = <<>>
  /\ mi = 1
  /\ output = <<>>
  /\ frags = <<>>
  /\ returned = <<>>
  /\ results = <<>>
  /\ document = EmptyStr

\* lines 16-22: clear both maps, first pass
CollectSummaries ==
  /\ pc = "parseInput"
  /\ summaryLeafs' = collectSummaries(InputLines(input), EmptyObject)
  /\ sessions' = <<>>
  /\ pc' = "processMessages"
  /\ UNCHANGED <<input, sessionGroups, gi, formatterVars>>

\* processMessages, lines 159-174
GroupMessages ==
  /\ pc = "processMessages"
  /\ sessionGroups' = groupMessages(InputLines(input), <<>>)
  /\ gi' = 1
  /\ pc' = "split"
  /\ UNCHANGED <<input, summaryLeafs, sessions, formatterVars>>

\* processMessages, lines 177-179: one iteration
SplitSession ==
  /\ pc = "split"
  /\ gi <= Len(sessionGroups)
  /\ sessions' = splitSessionBySummaries(sessions, sessionGroups[gi].key,
                                         sessionGroups[gi].value, summaryLeafs)
  /\ gi' = gi + 1
  /\ UNCHANGED <<input, pc, summaryLeafs, sessionGroups, formatterVars>>

\* line 27
ReturnSessions ==
  /\ pc = "split"
  /\ gi > Len(sessionGroups)
  /\ pc' = "parsed"
  /\ UNCHANGED <<input, summaryLeafs, sessionGroups, gi, sessions, formatterVars>>

NextParse == CollectSummaries \/ GroupMessages \/ SplitSession \/ ReturnSessions

SpecParse == InitParse /\ [][NextParse]_vars

-----------------------------------------------------------------------------
(* Inputs of the formatter specification: session "a" is any sequence of    *)
(* up to MaxRecords records of FormatterShapes, session "b" one of          *)
(* SecondSessions                                                           *)

Cwd == <<"/", "home", "/", "p">>

ToolUse(id, name, in) ==
  [ContentItem EXCEPT !.type = "tool_use", !.id = id, !.name = name, !.input = in]

ToolResult(id, text, isError) ==
  [ContentItem EXCEPT !.type = "tool_result", !.tool_use_id = id,
                      !.content = StringContent(text), !.is_error = isError]

Todo(content, status) == [content |-> content, status |-> status]

UserText ==
  [MessageData EXCEPT !.type = "user", !.content = StringContent(Hello), !.cwd = Cwd]

UserClear ==
  [MessageData EXCEPT !.type = "user",
     !.content = StringContent(<<"<command-name>", "/clear", "</command-name>">>)]

UserEmptyOutput ==
  [MessageData EXCEPT !.type = "user",
     !.content = StringContent(<<"<local-command-stdout>", "</local-command-stdout>">>)]

UserMeta ==
  [MessageData EXCEPT !.type = "user", !.isMeta = TRUE,
                      !.content = StringContent(<<"note">>)]

AssistantText ==
  [MessageData EXCEPT !.type = "assistant", !.content = StringContent(<<"Hi">>)]

AssistantApiError ==
  [MessageData EXCEPT !.type = "assistant", !.isApiErrorMessage = TRUE,
                      !.content = StringContent(<<"API Error">>)]

AssistantTools ==
  [MessageData EXCEPT !.type = "assistant",
     !.content = ArrayContent(<<
       ToolUse("t1", "Bash", [NoInput EXCEPT !.command = <<"l", "s">>]),
       ToolUse("t2", "TodoWrite",
               [NoInput EXCEPT !.hasTodos = TRUE,
                               !.todos = <<Todo(<<"plan">>, "completed"),
                                           Todo(<<"build">>, "in_progress")>>])>>)]

ErrorText == <<"Denied">>

UserResult(id, text, isError) ==
  [MessageData EXCEPT !.type = "user",
                      !.content = ArrayContent(<<ToolResult(id, text, isError)>>)]

PatchResult ==
  [defined |-> TRUE, hasPatch |-> TRUE,
   filePath |-> <<"/", "home", "/", "p", "/", "f", ".", "ts">>,
   structuredPatch |-> <<[lines |-> << <<"-", "old">>, <<"+", "new">> >>]>>]

\* an assistant record that says what it does and edits a file
AssistantEdit ==
  [MessageData EXCEPT !.type = "assistant",
     !.content = ArrayContent(<<
       TextItem(<<"Fixing">>),
       ToolUse("t3", "Edit",
               [NoInput EXCEPT !.file_path = Cwd \o <<"/", "f", ".", "ts">>,
                               !.old_string = <<"a", "\n", "b">>,
                               !.new_string = <<"c">>])>>)]

\* a user record holding a tool result and a text item
UserResultAndText ==
  [MessageData EXCEPT !.type = "user",
     !.content = ArrayContent(<<ToolResult("t1", <<"a.txt", "\n", "b.txt">>, FALSE),
                                TextItem(<<"thanks">>)>>)]

\* a user record holding a cancelled result and the result of a sibling tool use
UserTwoResults ==
  [MessageData EXCEPT !.type = "user",
     !.content = ArrayContent(<<ToolResult("t1", ErrorText, TRUE),
                                ToolResult("t2", <<"Todos", " have been modified">>, FALSE)>>)]

FormatterShapes ==
  {UserText, UserClear, UserEmptyOutput, UserMeta, AssistantText, AssistantApiError,
   AssistantTools, AssistantEdit, UserResultAndText, UserTwoResults,
   UserResult("t3", ErrorText, TRUE),
   UserResult("t1", <<"a.txt", "\n", "b.txt">>, FALSE),
   UserResult("t2", <<"Todos", " have been modified">>, FALSE),
   UserResult("t1", ErrorText, TRUE),
   [UserResult("t1", <<"The file", " has been", " updated">>, FALSE)
      EXCEPT !.toolUseResult = PatchResult]}

InSession(sid, d) == JsonLine([d EXCEPT !.sessionId = sid])

SecondSessions ==
  {<<>>,
   <<InSession("b", UserResult("t1", <<"a.txt", "\n", "b.txt">>, FALSE))>>,
   <<InSession("b", UserText)>>}

FormatterInputs ==
  {Numbered(a \o b) :
     a \in UNION {[1..n -> {InSession("a", d) : d \in FormatterShapes}] : n \in 0..MaxRecords},
     b \in SecondSessions}

-----------------------------------------------------------------------------
(* MarkdownFormatter.convertInput, then convertSession called again on      *)
(* sessions of the same Map                                                 *)

\* the Session convertSession is running on
currentSession == sessions[jobs[Len(jobs)]].value

Init ==
  /\ input \in FormatterInputs
  /\ pc = "convertInput"
  /\ summaryLeafs = EmptyObject
  /\ sessionGroups = <<>>
  /\ gi = 1
  /\ sessions = <<>>
  /\ context = NewProcessingContext
  /\ jobs = <<>>
  /\ mi = 1
  /\ output = <<>>
  /\ frags = <<>>
  /\ returned = <<>>
  /\ results = <<>>
  /\ document = EmptyStr

\* convertInput, lines 415-418: a new SessionParser parses the input
ParseInput ==
  /\ pc = "convertInput"
  /\ summaryLeafs' = collectSummaries(InputLines(input), EmptyObject)
  /\ sessionGroups' = groupMessages(InputLines(input), <<>>)
  /\ gi' = Len(sessionGroups') + 1
  /\ sessions' = parseInput(input)
  /\ pc' = "forSessions"
  /\ UNCHANGED <<input, context, jobs, mi, output, frags, returned, results, document>>

\* convertSession, lines 439-448, on the k-th session of the Map
StartSession(k) ==
  /\ jobs' = Append(jobs, k)
  /\ context' = resetContext(context)
  /\ output' = titleLines(sessions[k].value)
  /\ mi' = 1
  /\ frags' = <<>>
  /\ returned' = <<>>
  /\ pc' = "forEach"
  /\ UNCHANGED <<input, summaryLeafs, sessionGroups, gi, sessions, results, document>>

\* convertInput, lines 420-421: the next session of the Map
ConvertNextSession ==
  /\ pc = "forSessions"
  /\ Len(jobs) < Len(sessions)
  /\ StartSession(Len(jobs) + 1)

\* convertSession, lines 451-460: one iteration of forEach
ProcessMessage ==
  /\ pc = "forEach"
  /\ mi <= Len(currentSession.messages)
  /\ LET formatted == formatMessage(currentSession.messages[mi], currentSession.messages, mi, context)
     IN /\ context' = formatted.context
        /\ output' = output \o formatted.result
        /\ frags' = Append(frags, formatted.result)
        /\ returned' = Append(returned,
             [result |-> formatted.processed.result,
              pendingToolResults |-> formatted.processed.context.pendingToolResults,
              toolCallMap |-> formatted.processed.context.toolCallMap,
              before |-> context,
              context |-> formatted.processed.context,
              flushed |-> formatted.flushed])
  /\ mi' = mi + 1
  /\ UNCHANGED <<input, pc, summaryLeafs, sessionGroups, gi, sessions, jobs, results, document>>

\* convertSession, lines 462-471, and line 422
FinishSession ==
  /\ pc = "forEach"
  /\ mi > Len(currentSession.messages)
  /\ LET flushed == flushPendingToolResults(context)
     IN /\ context' = flushed.context
        /\ output' = output \o flushed.result
        /\ results' = Append(results,
             [markdown |-> Join(output \o flushed.result, <<"\n">>),
              sessionId |-> currentSession.id, summary |-> sessionTitle(currentSession),
              messageCount |-> currentSession.messageCount,
              flushed |-> flushed.flushed])
  /\ pc' = IF Len(jobs) <= Len(sessions) THEN "forSessions" ELSE "converted"
  /\ UNCHANGED <<input, summaryLeafs, sessionGroups, gi, sessions, jobs, mi, frags,
                 returned, document>>

\* convertInput, line 425
ReturnDocument ==
  /\ pc = "forSessions"
  /\ Len(jobs) = Len(sessions)
  /\ document' = Join([i \in 1..Len(results) |-> results[i].markdown], SessionSeparator)
  /\ pc' = "converted"
  /\ UNCHANGED <<input, summaryLeafs, sessionGroups, gi, sessions, context, jobs, mi,
                 output, frags, returned, results>>

\* the caller hands a Session of the Map to convertSession once more
ConvertSessionAgain ==
  /\ pc = "converted"
  /\ Len(jobs) < Len(sessions) + MaxAgain
  /\ \E k \in 1..Len(sessions) : StartSession(k)

Next ==
  \/ ParseInput
  \/ ConvertNextSession
  \/ ProcessMessage
  \/ FinishSession
  \/ ReturnDocument
  \/ ConvertSessionAgain

Spec == Init /\ [][Next]_vars

-----------------------------------------------------------------------------
(* ToolResultProcessor.formatToolResults as a function of one queued result *)
(* and the context it is rendered in                                        *)

\* a tool output of n lines
Listing(n) == Join([i \in 1..n |-> <<"f", ToString(i)>>], <<"\n">>)

Chars(word) ==
  CASE word = "ls" -> <<"l", "s">>
    [] word = "LS" -> <<"L", "S">>
    [] word = "ls -la" -> <<"l", "s", " ", "-", "l", "a">>
    [] word = "lsof" -> <<"l", "s", "o", "f">>
    [] word = "echo" -> <<"e", "c", "h", "o">>

ListingToolUses ==
  {ToolUse("t1", "LS", [NoInput EXCEPT !.path = Cwd]),
   ToolUse("t1", "Read", [NoInput EXCEPT !.file_path = Cwd \o <<"/", "f", ".", "ts">>])}
  \cup {ToolUse("t1", "Bash", [NoInput EXCEPT !.command = Chars(w)]) :
          w \in {"ls", "LS", "ls -la", "lsof", "echo"}}

TodoStatuses == {"pending", "in_progress", "completed"}

TodoWriteToolUses ==
  {ToolUse("t1", "TodoWrite", NoInput)}
  \cup {ToolUse("t1", "TodoWrite",
                [NoInput EXCEPT !.hasTodos = TRUE,
                                !.todos = [i \in DOMAIN st |-> Todo(<<"task ", ToString(i)>>, st[i])]]) :
          st \in UNION {[1..n -> TodoStatuses] : n \in 0..MaxTodos}}

\* the context of a session in which toolUse was registered and one result
\* is queued
QueuedContext(toolUse, toolResult, toolUseResult) ==
  [NewProcessingContext EXCEPT !.toolCallMap = (toolUse.id :> toolUse),
                               !.pendingTools = <<toolUse>>,
                               !.pendingToolResults = <<toolResult>>,
                               !.currentToolUseResult = toolUseResult]

\* a toolUseResult whose patch has two hunks
TwoHunkPatch ==
  [PatchResult EXCEPT !.structuredPatch =
     <<[lines |-> << <<"-", "old">>, <<"+", "new">> >>],
       [lines |-> << <<" ", "kept">>, <<"+", "added">> >>]>>]

\* a toolUseResult with a structured patch and no filePath
PatchWithoutPath == [PatchResult EXCEPT !.filePath = EmptyStr]

ToolUseResults == {NoToolUseResult, PatchResult, TwoHunkPatch, PatchWithoutPath}

ToolContexts ==
  {QueuedContext(tu, ToolResult(id, Listing(n), FALSE), tur) :
     tu \in ListingToolUses, id \in {"t1", "t9"}, n \in 1..MaxContentLines,
     tur \in ToolUseResults}
  \cup {QueuedContext(tu, ToolResult("t1", <<"Todos", " have been modified">>, FALSE), tur) :
          tu \in TodoWriteToolUses, tur \in ToolUseResults}

InitTool ==
  /\ context \in ToolContexts
  /\ pc = "formatToolResults"
  /\ input = <<>>
  /\ summaryLeafs = EmptyObject
  /\ sessionGroups = <<>>
  /\ gi = 1
  /\ sessions = <<>>
  /\ jobs = <<>>
  /\ mi = 1
  /\ output = <<>>
  /\ frags = <<>>
  /\ returned = <<>>
  /\ results = <<>>
  /\ document = EmptyStr

\* toolResultProcessor.formatToolResults(context.pendingToolResults)
FormatToolResults ==
  /\ pc = "formatToolResults"
  /\ output' = formatToolResults(context.pendingToolResults, context)
  /\ pc' = "formatted"
  /\ UNCHANGED <<input, summaryLeafs, sessionGroups, gi, sessions, context, jobs, mi,
                 frags, returned, results, document>>

NextTool == FormatToolResults

SpecTool == InitTool /\ [][NextTool]_vars

-----------------------------------------------------------------------------
(* What parseInput is expected to return, stated from the input alone *)

Count(seq, x) == Cardinality({i \in 1..Len(seq) : seq[i] = x})

\* the records of the input lines that parse as JSON and carry a sessionId
OwnedRecords ==
  {input[i].data : i \in {j \in 1..Len(input) :
                            input[j].kind = "json" /\ Truthy(input[j].data.sessionId)}}

\* the summary lines that enter the lookup table
SummaryLines ==
  {i \in 1..Len(input) :
     /\ input[i].kind = "json"
     /\ input[i].data.type = "summary"
     /\ Truthy(input[i].data.leafUuid)
     /\ input[i].data.summary # EmptyStr}

IsBoundary(d) == Truthy(d.uuid) /\ \E i \in SummaryLines : input[i].data.leafUuid = d.uuid

\* the text of the last summary line for leafUuid x
LastSummaryText(x) ==
  input[CHOOSE i \in SummaryLines :
          /\ input[i].data.leafUuid = x
          /\ \A j \in SummaryLines : input[j].data.leafUuid = x => j <= i].data.summary

BucketOf(d) == {e \in OwnedRecords : e.sessionId = d.sessionId}

\* number of boundary records of d's bucket before d
ChunkNo(d) == Cardinality({e \in BucketOf(d) : e.line < d.line /\ IsBoundary(e)})

ChunkOf(d) == {e \in BucketOf(d) : ChunkNo(e) = ChunkNo(d)}

ChunkIdOf(d) ==
  IF ChunkNo(d) = 0 THEN d.sessionId ELSE d.sessionId \o "_" \o ToString(ChunkNo(d))

ChunkCounted(d) == \E e \in ChunkOf(d) : e.type \in {"user", "assistant"}

\* buckets are split in order of first appearance, chunks in order
BucketStart(d) == CHOOSE n \in {e.line : e \in BucketOf(d)} :
                    \A e \in BucketOf(d) : n <= e.line

ChunkLater(d, e) ==
  \/ BucketStart(e) > BucketStart(d)
  \/ BucketStart(e) = BucketStart(d) /\ ChunkNo(e) > ChunkNo(d)

\* d's chunk is stored and not replaced by a later chunk with the same id
ChunkReturned(d) ==
  /\ ChunkCounted(d)
  /\ ~\E e \in OwnedRecords :
        ChunkLater(d, e) /\ ChunkIdOf(e) = ChunkIdOf(d) /\ ChunkCounted(e)

\* session.messages of all returned sessions, in session order
FlatMessages == Flatten([i \in 1..Len(sessions) |-> sessions[i].value.messages])

SessionsWith(d) ==
  {i \in 1..Len(sessions) :
     \E k \in 1..Len(sessions[i].value.messages) : sessions[i].value.messages[k] = d}

-----------------------------------------------------------------------------
(* C1 *)

-----------------------------------------------------------------------------
(* C4 *)

-----------------------------------------------------------------------------
(* What convertSession is expected to emit, stated from the records alone *)

\* the records of the session convertSession is running on, or ran on last
Records == IF jobs = <<>> THEN <<>> ELSE currentSession.messages

Handled(d) == d.type = "user" /\ ~d.isMeta /\ ~d.isApiErrorMessage

\* a user record whose content is exactly one tool_result
OneResultRecord(d) ==
  /\ Handled(d) /\ isContentArray(d)
  /\ Len(d.content.items) = 1
  /\ d.content.items[1].type = "tool_result"

TheResult(d) == d.content.items[1]

\* record k is followed by a user record that holds a tool_result
RunContinues(m, k) ==
  /\ k < Len(m)
  /\ m[k + 1].type = "user"
  /\ getToolResults(m[k + 1]) # <<>>

\* the assistant records up to j that register tool uses
Registering(m, j) ==
  {i \in 1..j : m[i].type = "assistant" /\ ~m[i].isApiErrorMessage /\ isContentArray(m[i])}

\* the positions <<record, item>> of the tool uses registered up to j
ToolUsePositions(m, j) ==
  UNION {{<<i, n>> : n \in {x \in 1..Len(m[i].content.items) :
                               /\ m[i].content.items[x].type = "tool_use"
                               /\ Truthy(m[i].content.items[x].id)}} :
           i \in Registering(m, j)}

RegisteredIds(m, j) == {m[p[1]].content.items[p[2]].id : p \in ToolUsePositions(m, j)}

\* the last tool use with this id up to record j
RegisteredToolUse(m, j, id) ==
  LET at == {p \in ToolUsePositions(m, j) : m[p[1]].content.items[p[2]].id = id}
      last == CHOOSE p \in at :
                \A q \in at : q[1] < p[1] \/ (q[1] = p[1] /\ q[2] <= p[2])
  IN m[last[1]].content.items[last[2]]

\* the working directory in force at record j
CwdAt(m, j) ==
  LET at == {i \in 1..j : m[i].cwd # EmptyStr}
  IN IF at = {} THEN EmptyStr ELSE m[CHOOSE i \in at : \A x \in at : x <= i].cwd

\* the context a tool result is to be rendered in when record j is the last
\* record of its run of tool-result records
RenderingContext(m, j) ==
  [pendingTools |-> <<>>, pendingToolResults |-> <<>>,
   toolCallMap |-> [id \in RegisteredIds(m, j) |-> RegisteredToolUse(m, j, id)],
   currentCwd |-> CwdAt(m, j),
   currentToolUseResult |-> m[j].toolUseResult]

-----------------------------------------------------------------------------
(* C2 *)

\* records k+1 and k+2 are a run of exactly two tool-result records, for two
\* tool uses that the assistant record k emitted
TwoResultsAfter(m, k) ==
  /\ k + 2 <= Len(m)
  /\ k \in Registering(m, k)
  /\ OneResultRecord(m[k + 1]) /\ ~TheResult(m[k + 1]).is_error
  /\ OneResultRecord(m[k + 2]) /\ ~TheResult(m[k + 2]).is_error
  /\ TheResult(m[k + 1]).tool_use_id # TheResult(m[k + 2]).tool_use_id
  /\ \A r \in {TheResult(m[k + 1]), TheResult(m[k + 2])} :
       \E n \in 1..Len(m[k].content.items) :
         m[k].content.items[n].type = "tool_use" /\ m[k].content.items[n].id = r.tool_use_id
  /\ ~RunContinues(m, k + 2)

\* C2: an assistant record with tool uses t1 and t2 followed by a run of two
\* user records, each one non-error tool_result (for t1, then for t2): the
\* first user record emits nothing, the second emits the rendering of the
\* result for t1 immediately followed by the rendering of the result for t2
\* and nothing else.
C2_TwoResultsOneBlock ==
  \A k \in 1..(Len(frags) - 2) :
    TwoResultsAfter(Records, k) =>
      /\ frags[k + 1] = <<>>
      /\ frags[k + 2] =
           formatToolResult(TheResult(Records[k + 1]), RenderingContext(Records, k + 2))
           \o formatToolResult(TheResult(Records[k + 2]), RenderingContext(Records, k + 2))

C2_Witness ==
  /\ pc = "converted"
  /\ Len(frags) = 3
  /\ TwoResultsAfter(Records, 1)
  /\ ~Records[2].toolUseResult.defined /\ ~Records[3].toolUseResult.defined
  /\ Len(frags[3]) > 6

-----------------------------------------------------------------------------
(* C3 *)

\* record k is a user record whose one tool_result is flagged is_error, for
\* a tool that is not Edit
CancelledNonEdit(m, k) ==
  /\ OneResultRecord(m[k]) /\ TheResult(m[k]).is_error
  /\ TheResult(m[k]).tool_use_id \in RegisteredIds(m, k) =>
       RegisteredToolUse(m, k, TheResult(m[k]).tool_use_id).name # "Edit"

\* the output holds a <details> block with this text as a line of its body
DetailsShowing(text) ==
  \E i \in 1..Len(output) : \E j \in (i + 1)..Len(output) :
    /\ StartsWith(output[i], <<"<details><summary>">>)
    /\ output[j] = text
    /\ \A x \in i..j : output[x] # <<"</details>">>

\* C3 (as claimed): a cancelled non-Edit tool result makes its record emit
\* exactly the cancellation notice, and the output never holds a <details>
\* block that shows the error content.
C3_OnlyCancelNotice ==
  \A k \in 1..Len(frags) :
    CancelledNonEdit(Records, k) =>
      /\ frags[k] = <<CancelNotice, EmptyStr>>
      /\ ~DetailsShowing(ToolResultText(TheResult(Records[k])))

-----------------------------------------------------------------------------
(* C5 *)

\* C5: two calls of convertSession on the same Session by the same formatter
\* return the same Markdown.
C5_SameSessionSameMarkdown ==
  \A i \in 1..Len(results) : \A j \in 1..Len(results) :
    jobs[i] = jobs[j] => results[i].markdown = results[j].markdown

C5_Witness ==
  /\ pc = "converted"
  /\ Len(results) = Len(jobs)
  /\ \E i \in 1..Len(results) : \E j \in (i + 1)..Len(results) :
       /\ jobs[i] = jobs[j]
       /\ LET m == sessions[jobs[i]].value.messages
          IN /\ \E k \in 1..Len(m) : m[k].cwd # EmptyStr
             /\ \E k \in 1..Len(m) : m[k].toolUseResult.hasPatch
             /\ \E k \in 1..Len(m) : k \in Registering(m, k)

-----------------------------------------------------------------------------
(* C6 *)

\* C6: the Markdown of every conversion equals what a newly constructed
\* formatter returns for that session, whatever was converted before; and
\* when convertSession reaches its first record the context has no pending
\* tools, no pending tool results, an empty toolCallMap, no cwd and no
\* toolUseResult.
C6_NothingCarriesOver ==
  /\ \A i \in 1..Len(results) :
       results[i].markdown =
         convertSession(sessions[jobs[i]].value, NewProcessingContext).markdown
  /\ (pc = "forEach" /\ mi = 1) =>
       /\ context.pendingTools = <<>>
       /\ context.pendingToolResults = <<>>
       /\ DOMAIN context.toolCallMap = {}
       /\ context.currentCwd = EmptyStr
       /\ ~context.currentToolUseResult.defined

C6_Witness ==
  /\ Len(results) >= 2
  /\ jobs[1] # jobs[2]
  /\ LET a == sessions[jobs[1]].value.messages
         b == sessions[jobs[2]].value.messages
     IN /\ "t1" \in RegisteredIds(a, Len(a))
        /\ \E k \in 1..Len(a) : a[k].cwd # EmptyStr
        /\ OneResultRecord(b[1]) /\ TheResult(b[1]).tool_use_id = "t1"

-----------------------------------------------------------------------------
(* C7 *)

\* a user record that MessageProcessor hands to handleToolResults with no
\* error result
NonErrorResultsRecord(d) ==
  /\ Handled(d) /\ isContentArray(d)
  /\ getToolResults(d) # <<>>
  /\ \A i \in 1..Len(getToolResults(d)) : ~getToolResults(d)[i].is_error

\* C7 (as claimed): when MessageProcessor.processMessage returns from a user
\* record with non-error tool results, pendingToolResults is empty and the
\* toolCallMap keeps the registered tool uses if no tool-result record
\* follows, and the record's results are in pendingToolResults if one does.
C7_ProcessorFlushesAtEndOfRun ==
  \A k \in 1..Len(returned) :
    NonErrorResultsRecord(Records[k]) =>
      IF RunContinues(Records, k)
      THEN \A i \in 1..Len(getToolResults(Records[k])) :
             \E j \in 1..Len(returned[k].pendingToolResults) :
               returned[k].pendingToolResults[j] = getToolResults(Records[k])[i]
      ELSE /\ returned[k].pendingToolResults = <<>>
           /\ RegisteredIds(Records, k) \subseteq DOMAIN returned[k].toolCallMap

-----------------------------------------------------------------------------
(* C8 *)

\* the sections of a user text followed by an assistant text
UserThenAssistant(m) ==
  << <<"### User">>, EmptyStr >>
  \o [i \in 1..Len(Split(m[1].content.text, "\n")) |->
        <<"> ">> \o Split(m[1].content.text, "\n")[i]]
  \o << EmptyStr, <<"### Assistant">>, EmptyStr, m[2].content.text, EmptyStr >>

\* the document is the sessions' Markdown in Map order, and the Markdown of
\* the session converted last is its title followed by the fragments of its
\* records in record order
InRecordOrder ==
  /\ pc = "converted" =>
       document = Join([i \in 1..Len(sessions) |-> results[i].markdown], SessionSeparator)
  /\ (jobs # <<>> /\ Len(results) = Len(jobs)) =>
       results[Len(results)].markdown =
         Join(<< <<"# ">> \o results[Len(results)].summary, EmptyStr >> \o Flatten(frags),
              <<"\n">>)

\* C8 (as claimed): every session of one user record with string content
\* followed by one assistant record with string content is converted to a
\* title line, a User section quoting the user text and an Assistant
\* section with the assistant text, in this order; fragments are in record
\* order.
C8_TitleUserAssistant ==
  /\ InRecordOrder
  /\ \A i \in 1..Len(results) :
       LET m == sessions[jobs[i]].value.messages
       IN (/\ Len(m) = 2
           /\ m[1].type = "user" /\ ~isContentArray(m[1])
           /\ m[2].type = "assistant" /\ ~isContentArray(m[2])) =>
            results[i].markdown =
              Join(<< <<"# ">> \o results[i].summary, EmptyStr >> \o UserThenAssistant(m),
                   <<"\n">>)

\* the user record is shown as a quoted User section
PlainUserText(d) ==
  /\ Handled(d) /\ ~isContentArray(d)
  /\ CommandNameMatches(d.content.text) = {}
  /\ ~isEmptyCommandOutput(d)

\* C8 (amended): the same, for a user record that is not meta, not an API
\* error, not a command and not an empty command output, and an assistant
\* record that is not an API error.
C8_PlainTextTitleUserAssistant ==
  /\ InRecordOrder
  /\ \A i \in 1..Len(results) :
       LET m == sessions[jobs[i]].value.messages
       IN (/\ Len(m) = 2
           /\ PlainUserText(m[1])
           /\ m[2].type = "assistant" /\ ~isContentArray(m[2])
           /\ ~m[2].isApiErrorMessage) =>
            results[i].markdown =
              Join(<< <<"# ">> \o results[i].summary, EmptyStr >> \o UserThenAssistant(m),
                   <<"\n">>)

C8_Witness ==
  /\ pc = "converted"
  /\ document # EmptyStr
  /\ Len(sessions) = 2
  /\ LET m == sessions[1].value.messages
     IN /\ Len(m) = 2
        /\ PlainUserText(m[1])
        /\ m[2].type = "assistant" /\ ~isContentArray(m[2]) /\ ~m[2].isApiErrorMessage

-----------------------------------------------------------------------------
(* C9 *)

\* the tool use, result text and rendering of the one queued result
QueuedResult == context.pendingToolResults[1]
QueuedToolCall == LookupToolCall(context, QueuedResult.tool_use_id)
NoPatchInContext == ~(context.currentToolUseResult.defined /\ context.currentToolUseResult.hasPatch)

ChecklistLine(todo) ==
  (IF todo.status = "completed" THEN <<"- ", "[x]", " ">> ELSE <<"- ", "[ ]", " ">>)
  \o todo.content
  \o (IF todo.status = "in_progress" THEN <<" (in progress)">> ELSE <<>>)

\* C9: the result of a TodoWrite tool use, with no structured patch in the
\* context, renders as the line **Updated task list**, a blank line, one
\* checklist line per todo in input order and a blank line; no line opens a
\* <details> block.
C9_TodoWriteChecklist ==
  (/\ pc = "formatted"
   /\ QueuedToolCall.found /\ QueuedToolCall.item.name = "TodoWrite"
   /\ NoPatchInContext) =>
    LET todos == QueuedToolCall.item.input.todos
    IN /\ output = << <<"**Updated task list**">>, EmptyStr >>
                   \o [i \in 1..Len(todos) |-> ChecklistLine(todos[i])]
                   \o <<EmptyStr>>
       /\ \A i \in 1..Len(output) : ~StartsWith(output[i], <<"<details><summary>">>)

C9_Witness ==
  /\ pc = "formatted"
  /\ QueuedToolCall.found /\ QueuedToolCall.item.name = "TodoWrite"
  /\ NoPatchInContext
  /\ {QueuedToolCall.item.input.todos[i].status :
        i \in 1..Len(QueuedToolCall.item.input.todos)} = TodoStatuses
  /\ Len(output) = 6

-----------------------------------------------------------------------------
(* C10 *)

ContentLines == Split(ToolResultText(QueuedResult), "\n")

\* the lines of the rendered Markdown
MarkdownLines == Split(Join(output, <<"\n">>), "\n")

\* the <details> body: a fence, the lines shown, a fence
BodyShowing(shown) ==
  <<MarkdownLines[1], EmptyStr, <<Fence>>>> \o shown
  \o << <<Fence>>, <<"</details>">>, EmptyStr >>

FirstLinesAndMarker ==
  MarkdownLines =
    BodyShowing(SubSeq(ContentLines, 1, 50)
                \o << EmptyStr,
                      <<"... (", ToString(Len(ContentLines) - 50), " more lines)">> >>)

AllLinesNoMarker == MarkdownLines = BodyShowing(ContentLines)

\* C10 (as claimed): a result of the LS tool, or of a Bash tool whose
\* command starts with ls or LS, shows its first 50 lines and the marker if
\* it has more than 50 lines, and all its lines and no marker otherwise.
C10_LsPrefixTruncated ==
  (/\ pc = "formatted"
   /\ QueuedToolCall.found
   /\ \/ QueuedToolCall.item.name = "LS"
      \/ /\ QueuedToolCall.item.name = "Bash"
         /\ \/ StartsWith(QueuedToolCall.item.input.command, <<"l", "s">>)
            \/ StartsWith(QueuedToolCall.item.input.command, <<"L", "S">>)) =>
    IF Len(ContentLines) > 50 THEN FirstLinesAndMarker ELSE AllLinesNoMarker

\* the command is ls or LS, alone or followed by white space
IsLsCommand(command) ==
  \/ command \in {<<"l", "s">>, <<"L", "S">>}
  \/ /\ Len(command) > 2
     /\ SubSeq(command, 1, 2) \in {<<"l", "s">>, <<"L", "S">>}
     /\ command[3] \in {" ", "\t", "\n"}

\* C10 (amended): with no structured patch in the context, a result of the
\* LS tool, or of a Bash tool whose command is ls or LS alone or followed
\* by white space, shows its first 50 lines and the marker if it has more
\* than 50 lines, and all its lines and no marker otherwise; the result of
\* any other Bash command or of a Read is shown in full.
C10_LsCommandTruncated ==
  (/\ pc = "formatted"
   /\ QueuedToolCall.found
   /\ QueuedToolCall.item.name \in {"LS", "Bash", "Read"}
   /\ NoPatchInContext) =>
    IF /\ Len(ContentLines) > 50
       /\ \/ QueuedToolCall.item.name = "LS"
          \/ /\ QueuedToolCall.item.name = "Bash"
             /\ IsLsCommand(QueuedToolCall.item.input.command)
    THEN FirstLinesAndMarker
    ELSE AllLinesNoMarker

C10_Witness ==
  /\ pc = "formatted"
  /\ QueuedToolCall.found /\ QueuedToolCall.item.name = "Bash"
  /\ QueuedToolCall.item.input.command = <<"l", "s", " ", "-", "l", "a">>
  /\ NoPatchInContext
  /\ Len(ContentLines) = 75
  /\ MarkdownLines[55] = <<"... (", "25", " more lines)">>
  /\ Len(MarkdownLines) = 58

-----------------------------------------------------------------------------
(* makeRelativePath as a function of a path and a working directory *)

\* most segments of a relative path
MaxSegments == 3

\* the working directories a record's cwd names; EmptyStr is "no cwd"
WorkingDirs == {<<"/">>, ProcessCwd, Cwd, <<"/", "srv">>}

\* the segments relative paths are made of
SegmentNames == {<<"a">>, <<"b.txt">>, <<".">>, <<"c", "\\", "d">>}

RelativePaths ==
  {Join(segs, <<"/">>) : segs \in UNION {[1..n -> SegmentNames] : n \in 1..MaxSegments}}

InitPath ==
  /\ \E dir \in WorkingDirs, rel \in RelativePaths, currentCwd \in WorkingDirs \cup {EmptyStr} :
       input = [dir |-> dir, rel |-> rel, filePath |-> PathJoin(dir, rel),
                currentCwd |-> currentCwd]
  /\ pc = "makeRelativePath"
  /\ context = NewProcessingContext
  /\ summaryLeafs = EmptyObject
  /\ sessionGroups = <<>>
  /\ gi = 1
  /\ sessions = <<>>
  /\ jobs = <<>>
  /\ mi = 1
  /\ output = <<>>
  /\ frags = <<>>
  /\ returned = <<>>
  /\ results = <<>>
  /\ document = EmptyStr

\* makeRelativePath(filePath, currentCwd)
MakeRelativePath ==
  /\ pc = "makeRelativePath"
  /\ output' = makeRelativePath(input.filePath, input.currentCwd)
  /\ pc' = "returned"
  /\ UNCHANGED <<input, summaryLeafs, sessionGroups, gi, sessions, context, jobs, mi,
                 frags, returned, results, document>>

NextPath == MakeRelativePath

SpecPath == InitPath /\ [][NextPath]_vars

-----------------------------------------------------------------------------
(* What makeRelativePath is expected to return, stated on segments *)

SegmentsOf(p) == SelectSeq(Split(p, "/"), LAMBDA seg : seg # <<>>)

\* a relative path with its "." segments dropped and "/" for every backslash
Plain(rel) ==
  LET kept == SelectSeq(SegmentsOf(rel), LAMBDA seg : seg # <<".">>)
      joined == IF kept = <<>> THEN <<".">> ELSE Join(kept, <<"/">>)
  IN [i \in 1..Len(joined) |-> IF joined[i] = "\\" THEN "/" ELSE joined[i]]

IsSegmentPrefix(a, b) == Len(a) <= Len(b) /\ SubSeq(b, 1, Len(a)) = a

\* the absolute path lies in the directory or below it
Under(filePath, dir) == IsSegmentPrefix(SegmentsOf(dir), SegmentsOf(filePath))

HasDotDot(p) == \E i \in 1..Len(p) : p[i] = ".."

LeadsWithDotDot(p) == Len(p) >= 1 /\ p[1] = ".."

Relativized == pc = "returned"

-----------------------------------------------------------------------------
(* MarkdownFormatter.validateInput: src/src/parsers/SessionParser.test.ts:609-640 *)

ValidTypes == {"user", "assistant", "summary", "system"}

\* the errors one line adds; i is the loop index (0-based) of the line among
\* the lines left after the blank ones were filtered out
validateLine(line, i) ==
  LET parsed == line.data
      at == <<"Line ", ToString(i + 1)>>
  IN IF ~JsonParses(line) THEN <<at \o <<": Invalid JSON - ", "Unexpected token">>>>
     ELSE (IF ~Truthy(parsed.type) THEN <<at \o <<": Missing 'type' field">>>> ELSE <<>>)
          \o (IF parsed.type \notin ValidTypes
              THEN <<at \o <<": Invalid type '", parsed.type, "'">>>> ELSE <<>>)
          \o (IF parsed.type # "summary" /\ ~Truthy(parsed.sessionId)
              THEN <<at \o <<": Missing 'sessionId' field for ", parsed.type, " message">>>>
              ELSE <<>>)

validateInput(in) ==
  LET lines == InputLines(in)
      errors == Flatten([i \in 1..Len(lines) |-> validateLine(lines[i], i - 1)])
  IN [valid |-> Len(errors) = 0, errors |-> errors]

ValidatedLineSet ==
  {GarbageLine, BlankLine,
   JsonLine([MessageData EXCEPT !.type = "user", !.sessionId = "s",
                                !.content = StringContent(Hello)]),
   JsonLine([MessageData EXCEPT !.type = "summary", !.leafUuid = "u1", !.summary = <<"First">>]),
   JsonLine([MessageData EXCEPT !.type = "user", !.content = StringContent(Hello)]),
   JsonLine([MessageData EXCEPT !.type = "tool", !.sessionId = "s"]),
   JsonLine([MessageData EXCEPT !.type = Undefined, !.sessionId = "s"])}

InitValidate ==
  /\ input \in InputsOver(ValidatedLineSet, MaxLines)
  /\ pc = "validateInput"
  /\ summaryLeafs = EmptyObject
  /\ sessionGroups = <<>>
  /\ gi = 1
  /\ sessions = <<>>
  /\ context = NewProcessingContext
  /\ jobs = <<>>
  /\ mi = 1
  /\ output = <<>>
  /\ frags = <<>>
  /\ returned = <<>>
  /\ results = <<>>
  /\ document = EmptyStr

\* formatter.validateInput(input)
ValidateInput ==
  /\ pc = "validateInput"
  /\ output' = validateInput(input)
  /\ pc' = "validated"
  /\ UNCHANGED <<input, summaryLeafs, sessionGroups, gi, sessions, context, jobs, mi,
                 frags, returned, results, document>>

NextValidate == ValidateInput

SpecValidate == InitValidate /\ [][NextValidate]_vars

-----------------------------------------------------------------------------
(* What validateInput is expected to report, stated on the lines of the input *)

Validated == pc = "validated"

NotJson(l) == l.kind = "garbage"

BadType(l) == l.kind = "json" /\ l.data.type \notin {"user", "assistant", "summary", "system"}

NoSessionId(l) ==
  l.kind = "json" /\ l.data.type # "summary" /\ l.data.sessionId \in {Undefined, ""}

Offending(l) == NotJson(l) \/ BadType(l) \/ NoSessionId(l)

\* some error starts with "Line k" and its text holds the word
ErrorNaming(k, word) ==
  \E e \in 1..Len(output.errors) :
    /\ SubSeq(output.errors[e], 1, 2) = <<"Line ", ToString(k)>>
    /\ \E t \in 3..Len(output.errors[e]) : output.errors[e][t] = word

ReportedAt(l, k) ==
  /\ NotJson(l) => ErrorNaming(k, ": Invalid JSON - ")
  /\ BadType(l) => ErrorNaming(k, ": Invalid type '")
  /\ NoSessionId(l) => ErrorNaming(k, ": Missing 'sessionId' field for ")

\* C12: every offending line of the input is reported under its 1-based line
\* number in the input, and valid is true exactly when no line offends.
C12_ReportsInputLineNumbers ==
  Validated =>
    /\ \A k \in 1..Len(input) : Offending(input[k]) => ReportedAt(input[k], k)
    /\ output.valid <=> (output.errors = <<>>)
    /\ output.valid <=> (\A k \in 1..Len(input) : ~Offending(input[k]))

\* the number of non-blank lines up to line k of the input
NonBlankUpTo(k) == Cardinality({j \in 1..k : input[j].kind # "blank"})

\* what holds instead: the number reported is the line's position among the
\* non-blank lines
C12_ReportsNonBlankPositions ==
  Validated =>
    /\ \A k \in 1..Len(input) :
         Offending(input[k]) => ReportedAt(input[k], NonBlankUpTo(k))
    /\ output.valid <=> (output.errors = <<>>)
    /\ output.valid <=> (\A k \in 1..Len(input) : ~Offending(input[k]))

-----------------------------------------------------------------------------
(* C13: lines parseInput skips *)

Parsed == pc = "parsed"

NoSession(l) == l.kind = "json" /\ l.data.sessionId \in {Undefined, ""}

\* the input with its non-JSON lines and its records without sessionId removed
WithoutBadLines == SelectSeq(input, LAMBDA l : ~(NotJson(l) \/ NoSession(l)))

\* the input with its non-JSON lines and its records without sessionId other
\* than summary records removed
WithoutSkippedLines ==
  SelectSeq(input, LAMBDA l : ~(NotJson(l) \/ (NoSession(l) /\ l.data.type # "summary")))

\* C13 (as stated): parseInput returns, and returns the sessions it returns
\* for the input without its non-JSON lines and its records without sessionId.
C13_BadLinesRemoved == Parsed => sessions = parseInput(WithoutBadLines)

\* C13 (amended): the same for the input without its non-JSON lines and its
\* non-summary records without sessionId; if no other line is left there are
\* no sessions.
C13_SkippedLinesRemoved ==
  Parsed =>
    /\ sessions = parseInput(WithoutSkippedLines)
    /\ (\A k \in 1..Len(input) : NotJson(input[k]) \/ NoSession(input[k])) => sessions = <<>>

\* a session was returned for an input holding a non-JSON line and a user
\* record without sessionId between the records of the session
C13_Witness ==
  /\ Parsed
  /\ Len(input) = 4
  /\ input[1].kind = "json" /\ input[1].data.sessionId = "s"
  /\ NotJson(input[2])
  /\ NoSession(input[3]) /\ input[3].data.type = "user"
  /\ input[4].kind = "json" /\ input[4].data.sessionId = "s"
  /\ Len(sessions) = 1
  /\ Len(sessions[1].value.messages) = 2

-----------------------------------------------------------------------------
(* C14 *)

ItemsOfType(d, type) == SelectSeq(d.content.items, LAMBDA it : it.type = type)

\* an assistant record with array content that holds tool uses and is not an
\* API error (an API error record is answered with nothing before its content
\* is looked at)
AssistantWithToolUses(d) ==
  /\ d.type = "assistant" /\ ~d.isApiErrorMessage
  /\ isContentArray(d)
  /\ ItemsOfType(d, "tool_use") # <<>>

\* the "### Assistant" section of the text items, nothing without text items
AssistantTextSection(d) ==
  LET texts == ItemsOfType(d, "text")
  IN IF texts = <<>> THEN <<>>
     ELSE <<<<"### Assistant">>, EmptyStr>>
          \o Flatten([i \in 1..Len(texts) |-> <<texts[i].text, EmptyStr>>])

\* the last tool use of the record with this id
LastToolUseWithId(d, id) ==
  LET uses == ItemsOfType(d, "tool_use")
  IN uses[CHOOSE n \in 1..Len(uses) :
            uses[n].id = id /\ \A x \in (n + 1)..Len(uses) : uses[x].id # id]

\* C14: processing an assistant record that holds tool uses appends them all,
\* in order, to pendingTools, registers each under its id in toolCallMap, and
\* returns only the "### Assistant" section of the text items.
C14_ToolUsesStoredNotRendered ==
  \A i \in 1..Len(returned) :
    AssistantWithToolUses(Records[i]) =>
      LET uses == ItemsOfType(Records[i], "tool_use") IN
      /\ returned[i].context.pendingTools = returned[i].before.pendingTools \o uses
      /\ \A n \in 1..Len(uses) :
           /\ uses[n].id \in DOMAIN returned[i].context.toolCallMap
           /\ returned[i].context.toolCallMap[uses[n].id] = LastToolUseWithId(Records[i], uses[n].id)
      /\ returned[i].result = AssistantTextSection(Records[i])
      /\ frags[i] = AssistantTextSection(Records[i])

\* an assistant record with a text item and an Edit tool use was processed
\* after a record that left a tool use pending
C14_Witness ==
  /\ Len(returned) = 2
  /\ Records[1].content = AssistantTools.content
  /\ Records[2].content = AssistantEdit.content
  /\ AssistantWithToolUses(Records[2])
  /\ Len(returned[2].context.pendingTools) = 3
  /\ returned[2].result = << <<"### Assistant">>, EmptyStr, <<"Fixing">>, EmptyStr >>

-----------------------------------------------------------------------------
(* C15 *)

\* the formatter has finished record mi - 1 of the session it is converting
FinishedRecord == pc = "forEach" /\ mi > 1

\* convertSession has run its terminal flush
SessionConverted == Len(jobs) >= 1 /\ Len(results) = Len(jobs)

\* the queue is non-empty only while the run of tool-result records goes on
QueueOnlyWhileRunContinues ==
  (FinishedRecord /\ context.pendingToolResults # <<>>) => RunContinues(Records, mi - 1)

\* C15 (as stated): after record i the queue is non-empty only if record i+1
\* is a user record with a tool_result; after the terminal flush the queue and
\* pendingTools are empty and currentToolUseResult is cleared.
C15_EverythingClearedAtEnd ==
  /\ QueueOnlyWhileRunContinues
  /\ SessionConverted =>
       /\ context.pendingToolResults = <<>>
       /\ context.pendingTools = <<>>
       /\ ~context.currentToolUseResult.defined

\* the step of convertSession after the last record
TerminalFlush == pc = "forEach" /\ mi > Len(Records) /\ pc' # "forEach"

\* C15 (amended): the same for the queue; the terminal flush finds the queue
\* empty and so adds nothing and clears nothing: pendingTools and
\* currentToolUseResult keep what the last record left in them.
C15_QueueClearedAtEnd ==
  /\ [](QueueOnlyWhileRunContinues /\ (SessionConverted => context.pendingToolResults = <<>>))
  /\ [][TerminalFlush => (context' = context /\ output' = output)]_vars

\* a session whose assistant record's tool uses never got a result has been
\* converted and its tool uses are still pending
C15_Witness ==
  /\ SessionConverted
  /\ Len(Records) = 3
  /\ AssistantWithToolUses(Records[3])
  /\ Len(frags) = 3
  /\ context.pendingTools # <<>>
  /\ context.pendingToolResults = <<>>

-----------------------------------------------------------------------------
(* C16 *)

\* the items processing record i put into the queue
QueuedBy(i) ==
  SubSeq(returned[i].context.pendingToolResults,
         Len(returned[i].before.pendingToolResults) + 1,
         Len(returned[i].context.pendingToolResults))

\* all items queued, and all items handed to formatToolResults, by the
\* records finished so far, in order
QueuedSoFar == Flatten([i \in 1..Len(returned) |-> QueuedBy(i)])

HandedSoFar == Flatten([i \in 1..Len(returned) |-> returned[i].flushed])

\* the renderings of the items handed over at record i, one after the other
RenderedInOrder(i) ==
  Flatten([k \in 1..Len(returned[i].flushed) |->
             formatToolResult(returned[i].flushed[k], returned[i].context)])

\* C16: every item put into pendingToolResults is handed to formatToolResults
\* exactly once before the session's Markdown is complete, in the order in
\* which the items were queued, and is rendered in that order.
C16_QueuedRenderedOnceInOrder ==
  /\ \A i \in 1..Len(returned) :
       /\ returned[i].before.pendingToolResults
            = SubSeq(returned[i].context.pendingToolResults, 1,
                     Len(returned[i].before.pendingToolResults))
       /\ frags[i] = returned[i].result \o RenderedInOrder(i)
  /\ (pc = "forEach") => QueuedSoFar = HandedSoFar \o context.pendingToolResults
  /\ SessionConverted =>
       /\ QueuedSoFar = HandedSoFar \o results[Len(results)].flushed
       /\ context.pendingToolResults = <<>>

\* two results queued by two records were handed over together, in the order
\* of the records, and the session's Markdown is complete
C16_Witness ==
  /\ SessionConverted
  /\ Len(returned) = 3
  /\ Len(QueuedBy(2)) = 1 /\ Len(QueuedBy(3)) = 1
  /\ QueuedBy(2) # QueuedBy(3)
  /\ returned[2].flushed = <<>>
  /\ returned[3].flushed = QueuedBy(2) \o QueuedBy(3)

-----------------------------------------------------------------------------
(* C17 *)

\* a user record whose array content holds tool results and other items, and
\* at which the formatter flushed the queue
ResultsAndOtherContentFlushed(i) ==
  /\ Handled(Records[i]) /\ isContentArray(Records[i])
  /\ ItemsOfType(Records[i], "tool_result") # <<>>
  /\ \E n \in 1..Len(Records[i].content.items) :
       Records[i].content.items[n].type # "tool_result"
  /\ returned[i].flushed # <<>>

\* where the "### User" heading stands in the fragment of record i
UserHeadingAt(i) == {u \in 1..Len(frags[i]) : frags[i][u] = <<"### User">>}

\* C17: in the output of such a record the flushed tool-result rendering comes
\* first and the "### User" section of the other items comes after it.
C17_ResultsBeforeUserSection ==
  \A i \in 1..Len(returned) :
    ResultsAndOtherContentFlushed(i) =>
      LET rendering == RenderedInOrder(i) IN
      /\ rendering # <<>>
      /\ SubSeq(frags[i], 1, Len(rendering)) = rendering
      /\ UserHeadingAt(i) # {}
      /\ \A u \in UserHeadingAt(i) : u > Len(rendering)

-----------------------------------------------------------------------------
(* C18 *)

\* item r is the tool result item, with or without its error flag
SameResult(r, item) == [r EXCEPT !.is_error = item.is_error] = item

\* C18: processing a non-meta user record with array content appends every
\* one of its tool_result items to pendingToolResults, flagged is_error or
\* not, the non-error siblings of an error result included.
C18_AllResultsQueued ==
  \A i \in 1..Len(returned) :
    (Handled(Records[i]) /\ isContentArray(Records[i])) =>
      LET items == ItemsOfType(Records[i], "tool_result") IN
      /\ Len(QueuedBy(i)) = Len(items)
      /\ \A k \in 1..Len(items) : SameResult(QueuedBy(i)[k], items[k])

\* what holds instead: a record with an error result queues its error
\* results only, a record without one queues all its results
C18_OnlyErrorResultsQueuedBesideAnError ==
  \A i \in 1..Len(returned) :
    (Handled(Records[i]) /\ isContentArray(Records[i])) =>
      LET items == ItemsOfType(Records[i], "tool_result")
          errors == SelectSeq(items, LAMBDA r : r.is_error)
          kept == IF errors = <<>> THEN items ELSE errors
      IN /\ Len(QueuedBy(i)) = Len(kept)
         /\ \A k \in 1..Len(kept) : SameResult(QueuedBy(i)[k], kept[k])

-----------------------------------------------------------------------------
(* C19 *)

Formatted == pc = "formatted"

PatchInContext == context.currentToolUseResult.defined /\ context.currentToolUseResult.hasPatch

\* the lines of all hunks of the context's patch, in hunk order
HunkLines ==
  LET patch == context.currentToolUseResult.structuredPatch
  IN Flatten([h \in 1..Len(patch) |-> patch[h].lines])

\* form 1: the Edit line, a blank line and the fenced diff of all hunk lines
IsEditDiff(md) ==
  /\ Len(md) = Len(HunkLines) + 5
  /\ StartsWith(md[1], <<"**Edit:** ">>)
  /\ md[2] = EmptyStr
  /\ md[3] = <<Fence, "diff">>
  /\ SubSeq(md, 4, Len(md) - 2) = HunkLines
  /\ md[Len(md) - 1] = <<Fence>>
  /\ md[Len(md)] = EmptyStr

\* form 2: the task-list block
IsTaskList(md) == Len(md) >= 1 /\ md[1] = <<"**Updated task list**">>

\* form 3: a collapsed <details> block
IsDetails(md) ==
  /\ Len(md) >= 2
  /\ StartsWith(md[1], <<"<details><summary>">>)
  /\ md[Len(md) - 1] = <<"</details>">>

\* C19: the queued item is rendered as the Edit diff if the context holds a
\* structured patch and a file path, else as the task list if its tool use is
\* TodoWrite, else as a <details> block; the rendering is never empty.
C19_OneOfThreeForms ==
  Formatted =>
    /\ output # <<>>
    /\ IF PatchInContext /\ context.currentToolUseResult.filePath # EmptyStr
       THEN IsEditDiff(output)
       ELSE IF QueuedToolCall.found /\ QueuedToolCall.item.name = "TodoWrite"
       THEN IsTaskList(output)
       ELSE IsDetails(output)

\* what holds instead: a structured patch decides alone; without a file path
\* the item is rendered as nothing
C19_PatchWithoutPathRendersNothing ==
  Formatted =>
    IF PatchInContext
    THEN (IF context.currentToolUseResult.filePath # EmptyStr
          THEN IsEditDiff(output) ELSE output = <<>>)
    ELSE IF QueuedToolCall.found /\ QueuedToolCall.item.name = "TodoWrite"
    THEN IsTaskList(output)
    ELSE IsDetails(output)

-----------------------------------------------------------------------------
(* C20 *)

\* the tool use a result of record i refers to, as registered before record i
ToolCallBefore(i, r) == LookupToolCall(returned[i].before, r.tool_use_id)

\* r is a cancelled result of an Edit with file_path, old_string and new_string
CancelledEdit(i, r) ==
  /\ r.is_error
  /\ ToolCallBefore(i, r).found
  /\ ToolCallBefore(i, r).item.name = "Edit"
  /\ ToolCallBefore(i, r).item.input.file_path # EmptyStr
  /\ ToolCallBefore(i, r).item.input.old_string # EmptyStr
  /\ ToolCallBefore(i, r).item.input.new_string # EmptyStr

\* record i is a handled user record whose only tool result is a cancelled Edit
CancelledEditRecord(i) ==
  /\ Handled(Records[i]) /\ isContentArray(Records[i])
  /\ Len(ItemsOfType(Records[i], "tool_result")) = 1
  /\ CancelledEdit(i, ItemsOfType(Records[i], "tool_result")[1])

\* every old line with "-" before it, then every new line with "+" before it
DiffOf(in) ==
  [n \in 1..Len(Split(in.old_string, "\n")) |-> <<"-">> \o Split(in.old_string, "\n")[n]]
  \o [n \in 1..Len(Split(in.new_string, "\n")) |-> <<"+">> \o Split(in.new_string, "\n")[n]]

\* the fragment shows an **Edit:** line followed by the fenced diff
ShowsDiff(frag, diff) ==
  \E k \in 1..Len(frag) :
    /\ StartsWith(frag[k], <<"**Edit:** ">>)
    /\ k + Len(diff) + 4 <= Len(frag)
    /\ SubSeq(frag, k + 1, k + Len(diff) + 4)
         = <<EmptyStr, <<Fence, "diff">> >> \o diff \o << <<Fence>>, EmptyStr >>

\* the record at which the results queued by record i are handed over, if
\* the formatter has got that far
FlushesOf(i) == {j \in i..Len(returned) : returned[j].flushed # <<>>}

SynthesizedPatch(i) ==
  LET in == ToolCallBefore(i, ItemsOfType(Records[i], "tool_result")[1]).item.input
  IN /\ returned[i].context.currentToolUseResult.hasPatch
     /\ returned[i].context.currentToolUseResult.filePath = in.file_path
     /\ Len(returned[i].context.currentToolUseResult.structuredPatch) = 1
     /\ returned[i].context.currentToolUseResult.structuredPatch[1].lines = DiffOf(in)

RenderedAsDiffAt(i, j) ==
  ShowsDiff(frags[j],
            DiffOf(ToolCallBefore(i, ItemsOfType(Records[i], "tool_result")[1]).item.input))

\* C20: processing a cancelled Edit result sets the context's toolUseResult
\* to a one-hunk patch of the old lines with "-" and the new lines with "+"
\* for that file, and the flush that later hands the item over renders it as
\* the **Edit:** line and the diff block.
C20_CancelledEditRendersAsDiff ==
  \A i \in 1..Len(returned) :
    CancelledEditRecord(i) =>
      /\ SynthesizedPatch(i)
      /\ \A j \in FlushesOf(i) :
           (\A x \in FlushesOf(i) : j <= x) => RenderedAsDiffAt(i, j)

\* what holds instead: the patch is synthesized, and the item is rendered as
\* the diff when the queue is flushed at the cancelled record itself
C20_CancelledEditRendersAsDiffAtOnce ==
  \A i \in 1..Len(returned) :
    CancelledEditRecord(i) =>
      /\ SynthesizedPatch(i)
      /\ (i \in FlushesOf(i)) => RenderedAsDiffAt(i, i)

-----------------------------------------------------------------------------
(* The processing context over longer sessions: MarkdownFormatter with      *)
(* sessions of up to MaxContextRecords records that move the working        *)
(* directory, are meta or flagged records, or register and answer tool uses *)

MaxContextRecords == 4

Elsewhere == <<"/", "home", "/", "q">>

SystemElsewhere == [MessageData EXCEPT !.type = "system", !.cwd = Elsewhere]

CaveatText == <<"Caveat:", " the messages below were generated by the user">>

UserCaveat ==
  [MessageData EXCEPT !.type = "user", !.isMeta = TRUE,
                      !.content = StringContent(CaveatText),
                      !.toolUseResult = PatchResult]

\* a meta record whose second text item is the caveat
UserCaveatLater ==
  [MessageData EXCEPT !.type = "user", !.isMeta = TRUE,
                      !.content = ArrayContent(<<TextItem(<<"note">>), TextItem(CaveatText)>>)]

UserApiError ==
  [MessageData EXCEPT !.type = "user", !.isApiErrorMessage = TRUE,
                      !.content = ArrayContent(<<ToolResult("t1", <<"API Error">>, FALSE)>>),
                      !.toolUseResult = PatchResult]

ContextShapes ==
  {AssistantTools, UserText, SystemElsewhere, UserCaveat, UserCaveatLater,
   UserApiError, UserMeta,
   UserResult("t1", <<"a.txt", "\n", "b.txt">>, FALSE),
   UserResult("t2", <<"Todos", " have been modified">>, FALSE)}

ContextInputs ==
  {Numbered(a) :
     a \in UNION {[1..n -> {InSession("a", d) : d \in ContextShapes}] :
                    n \in 0..MaxContextRecords}}

InitContext ==
  /\ input \in ContextInputs
  /\ pc = "convertInput"
  /\ summaryLeafs = EmptyObject
  /\ sessionGroups = <<>>
  /\ gi = 1
  /\ sessions = <<>>
  /\ context = NewProcessingContext
  /\ jobs = <<>>
  /\ mi = 1
  /\ output = <<>>
  /\ frags = <<>>
  /\ returned = <<>>
  /\ results = <<>>
  /\ document = EmptyStr

SpecContext == InitContext /\ [][Next]_vars

-----------------------------------------------------------------------------
(* C21: the tool-use map within one session *)

\* the records of the session handled so far
RecordsDone == Len(returned)

\* C21: within one session the tool-use map only grows: every tool use id
\* that an assistant record of the session registered so far is still
\* defined in the context, after any number of later records and flushes,
\* with the tool use registered last under that id; and no step within a
\* session (a record with or without a flush, the flush at the end) removes
\* an entry of the map.
C21_ToolCallMapOnlyGrows ==
  /\ [](jobs # <<>> =>
          \A t \in RegisteredIds(Records, RecordsDone) :
            /\ t \in DOMAIN context.toolCallMap
            /\ context.toolCallMap[t] = RegisteredToolUse(Records, RecordsDone, t))
  /\ [][(ProcessMessage \/ FinishSession) =>
          \A t \in DOMAIN context.toolCallMap : t \in DOMAIN context'.toolCallMap]_vars

\* a result that arrived after an earlier flush was rendered, as the task
\* list of the tool use registered before that flush
C21_Witness ==
  /\ SessionConverted
  /\ Len(Records) = 4
  /\ AssistantWithToolUses(Records[1])
  /\ OneResultRecord(Records[2]) /\ TheResult(Records[2]).tool_use_id = "t1"
  /\ Records[3].type = "user" /\ ~isContentArray(Records[3]) /\ Handled(Records[3])
  /\ OneResultRecord(Records[4]) /\ TheResult(Records[4]).tool_use_id = "t2"
  /\ returned[2].flushed # <<>>
  /\ returned[3].pendingToolResults = <<>>
  /\ "t2" \in DOMAIN returned[4].toolCallMap
  /\ Len(returned[4].flushed) = 1
  /\ \E k \in 1..Len(output) : output[k] = <<"**Updated task list**">>

-----------------------------------------------------------------------------
(* C22: the current working directory *)

CarriesCwd(d) == d.cwd # EmptyStr

\* C22: after processing a record of any type that carries a cwd the
\* context's working directory is that record's cwd, and processing a record
\* without cwd leaves it as it was; so at every point of a session it is the
\* cwd of the latest record so far that carried one (none before the first).
C22_CwdOfLatestRecord ==
  /\ \A i \in 1..Len(returned) :
       returned[i].context.currentCwd =
         IF CarriesCwd(Records[i]) THEN Records[i].cwd ELSE returned[i].before.currentCwd
  /\ jobs # <<>> => context.currentCwd = CwdAt(Records, RecordsDone)

\* a user record set the directory, a system record moved it, and a record
\* without cwd left it there
C22_Witness ==
  /\ SessionConverted
  /\ Len(Records) = 3 /\ RecordsDone = 3
  /\ Records[1].type = "user" /\ Records[1].cwd = Cwd
  /\ Records[2].type = "system" /\ Records[2].cwd = Elsewhere
  /\ ~CarriesCwd(Records[3])
  /\ returned[1].context.currentCwd = Cwd
  /\ context.currentCwd = Elsewhere

-----------------------------------------------------------------------------
(* C23: caveat records and flagged user records *)

TextItemsOf(d) == SelectSeq(d.content.items, LAMBDA it : it.type = "text")

\* an isMeta record whose string content, or whose first text item, starts
\* with Caveat:
CaveatByFirstItem(d) ==
  /\ d.isMeta
  /\ IF isContentArray(d)
     THEN TextItemsOf(d) # <<>> /\ StartsWith(TextItemsOf(d)[1].text, <<"Caveat:">>)
     ELSE StartsWith(d.content.text, <<"Caveat:">>)

\* an isMeta record whose string content, or one of whose text items, starts
\* with Caveat:
CaveatByAnyItem(d) ==
  /\ d.isMeta
  /\ IF isContentArray(d)
     THEN \E k \in 1..Len(TextItemsOf(d)) : StartsWith(TextItemsOf(d)[k].text, <<"Caveat:">>)
     ELSE StartsWith(d.content.text, <<"Caveat:">>)

\* record i produced no output and left the queues, the tool-use map and the
\* stored toolUseResult as they were
Silent(i) ==
  /\ returned[i].result = <<>>
  /\ returned[i].context.pendingToolResults = returned[i].before.pendingToolResults
  /\ returned[i].context.pendingTools = returned[i].before.pendingTools
  /\ returned[i].context.toolCallMap = returned[i].before.toolCallMap
  /\ returned[i].context.currentToolUseResult = returned[i].before.currentToolUseResult

\* C23: a user record that is flagged as an API error or is a caveat (an
\* isMeta record whose string content, or whose first text item, starts with
\* Caveat:) produces no output and changes no queue, tool-use map entry or
\* stored toolUseResult; an isMeta record that is not such a caveat is
\* rendered as a collapsed disclosure block.
C23_CaveatByFirstItemSilent ==
  \A i \in 1..Len(returned) :
    Records[i].type = "user" =>
      /\ (Records[i].isApiErrorMessage \/ CaveatByFirstItem(Records[i])) => Silent(i)
      /\ (Records[i].isMeta /\ ~Records[i].isApiErrorMessage
          /\ ~CaveatByFirstItem(Records[i])) => IsDetails(returned[i].result)

\* the same with a caveat being an isMeta record one of whose text items
\* starts with Caveat:
C23_CaveatByAnyItemSilent ==
  \A i \in 1..Len(returned) :
    Records[i].type = "user" =>
      /\ (Records[i].isApiErrorMessage \/ CaveatByAnyItem(Records[i])) => Silent(i)
      /\ (Records[i].isMeta /\ ~Records[i].isApiErrorMessage
          /\ ~CaveatByAnyItem(Records[i])) => IsDetails(returned[i].result)

-----------------------------------------------------------------------------
(* C24: the chunks of a bucket *)

\* the indices of the boundary records of a bucket: the records whose uuid
\* is a key of the summary table
Boundaries(bucket) ==
  {i \in 1..Len(bucket) : Truthy(bucket[i].uuid) /\ bucket[i].uuid \in DOMAIN summaryLeafs}

\* the n-th boundary index in ascending order
NthBoundary(bucket, n) ==
  CHOOSE i \in Boundaries(bucket) :
    Cardinality({j \in Boundaries(bucket) : j < i}) = n - 1

\* the number of chunks [1..i1], [i1+1..i2], ..., [ik+1..end], the last one
\* only if it is not empty
ChunkTotal(bucket) ==
  LET k == Cardinality(Boundaries(bucket))
  IN IF k = 0 THEN 1
     ELSE IF NthBoundary(bucket, k) < Len(bucket) THEN k + 1 ELSE k

\* the j-th chunk, j counting from 0
Chunk(bucket, j) ==
  LET k == Cardinality(Boundaries(bucket))
  IN SubSeq(bucket, IF j = 0 THEN 1 ELSE NthBoundary(bucket, j) + 1,
                    IF j < k THEN NthBoundary(bucket, j + 1) ELSE Len(bucket))

SynthesizedId(base, j) == IF j = 0 THEN base ELSE base \o "_" \o ToString(j)

HasCountedRecord(chunk) ==
  \E i \in 1..Len(chunk) : chunk[i].type \in {"user", "assistant"}

\* the chunks of the bucket that hold a user or assistant record
CountedChunks(bucket) == {j \in 0..(ChunkTotal(bucket) - 1) : HasCountedRecord(Chunk(bucket, j))}

\* C24: splitting a sessionId bucket with boundary records at i1 < ... < ik
\* stores the contiguous chunks [first..i1], [i1+1..i2], ..., [ik+1..end],
\* the first under the original id and the j-th later one under
\* <original>_<j>; a bucket without boundary records is stored whole under
\* the original id; no session is stored for an empty last chunk, and no
\* other session is created or changed (a chunk without user or assistant
\* record is discarded).
C24_ContiguousChunksNumberedFromOne ==
  [][SplitSession =>
       LET base == sessionGroups[gi].key
           bucket == sessionGroups[gi].value
           ids == {SynthesizedId(base, j) : j \in CountedChunks(bucket)}
       IN /\ \A j \in CountedChunks(bucket) :
               /\ MapHas(sessions', SynthesizedId(base, j))
               /\ MapGet(sessions', SynthesizedId(base, j)).id = SynthesizedId(base, j)
               /\ MapGet(sessions', SynthesizedId(base, j)).messages = Chunk(bucket, j)
          /\ \A i \in 1..Len(sessions') :
               sessions'[i].key \notin ids =>
                 i <= Len(sessions) /\ sessions'[i] = sessions[i]
          /\ \A i \in 1..Len(sessions) : MapHas(sessions', sessions[i].key)]_vars

\* a bucket of three records with two boundary records was returned as the
\* sessions s, s_1 and s_2 of one record each
C24_Witness ==
  /\ Parsed
  /\ Len(sessionGroups) = 1 /\ sessionGroups[1].key = "s"
  /\ Boundaries(sessionGroups[1].value) = {1, 2}
  /\ Len(sessionGroups[1].value) = 3
  /\ Len(sessions) = 3
  /\ \A j \in 0..2 :
       /\ sessions[j + 1].key = SynthesizedId("s", j)
       /\ sessions[j + 1].value.messages = <<sessionGroups[1].value[j + 1]>>

-----------------------------------------------------------------------------
(* C25: messageCount *)

CountedRecords(messages) ==
  Cardinality({i \in 1..Len(messages) : messages[i].type \in {"user", "assistant"}})

\* C25: every session parseInput stores has messageCount equal to the number
\* of user and assistant records in its messages, and that number is at
\* least 1.
C25_MessageCountCountsUserAndAssistant ==
  \A i \in 1..Len(sessions) :
    /\ sessions[i].value.messageCount = CountedRecords(sessions[i].value.messages)
    /\ sessions[i].value.messageCount >= 1

\* a session of three records counts two of them, and a chunk without user
\* or assistant record was not emitted
C25_Witness ==
  /\ Parsed
  /\ Len(sessions) = 1
  /\ Len(sessions[1].value.messages) = 3
  /\ sessions[1].value.messageCount = 2
  /\ \E d \in OwnedRecords : ~ChunkCounted(d)

-----------------------------------------------------------------------------
(* C26: summary records *)

\* C26: no session parseInput returns has a record of type summary in its
\* messages.
C26_NoSummaryRecordInASession ==
  Parsed =>
    \A i \in 1..Len(sessions) :
      \A k \in 1..Len(sessions[i].value.messages) :
        sessions[i].value.messages[k].type # "summary"

\* the summary records in returned sessions are exactly those that carry a
\* sessionId and fall in a chunk with a user or assistant record that is
\* not replaced
C26_OnlySummaryRecordsWithSessionId ==
  Parsed =>
    \A l \in 1..Len(input) :
      (input[l].kind = "json" /\ input[l].data.type = "summary") =>
        (SessionsWith(input[l].data) # {}
           <=> (Truthy(input[l].data.sessionId) /\ ChunkReturned(input[l].data)))

-----------------------------------------------------------------------------
(* SessionParser.parseFiles on one file: parseInput on its lines, then the  *)
(* file metadata and the session list (lines 33-104)                        *)

TsEpoch == <<"1", "9", "7", "0", "-", "0", "1", "-", "0", "1", "T", "0", "0", ":", "0", "0", ":", "0", "0", "Z">>
TsEarly == <<"2", "0", "2", "4", "-", "0", "1", "-", "0", "1", "T", "0", "0", ":", "0", "0", ":", "0", "0", ".", "0", "0", "0", "Z">>
TsLate == <<"2", "0", "2", "4", "-", "0", "1", "-", "0", "1", "T", "0", "0", ":", "0", "5", ":", "0", "0", ".", "0", "0", "0", "Z">>
TsNoMonth == <<"2", "0", "2", "4", "-", "1", "3", "-", "0", "1", "T", "0", "0", ":", "0", "0", ":", "0", "0", "Z">>
TsWord == <<"s", "o", "o", "n">>
TsUnix == <<"1", "7", "0", "4", "0", "6", "7", "5", "0", "0">>
TsUuid == <<"1", "2", "3", "e", "4", "5", "6", "7", "-", "e", "8", "9", "b", "-", "1", "2", "d", "3", "-", "a", "4", "5", "6", "-", "4", "2", "6", "6", "1", "4", "1", "7", "4", "0", "0", "0">>

Timestamps == {EmptyStr, TsEpoch, TsEarly, TsLate, TsNoMonth, TsWord, TsUnix, TsUuid}

TimedLineSet ==
  {JsonLine([MessageData EXCEPT !.type = "user", !.sessionId = "s",
                                !.content = StringContent(Hello), !.timestamp = t]) :
     t \in Timestamps}

\* fileStats.mtime of the file, and new Date() when parseFiles runs
FileMtime == [nan |-> FALSE, day |-> 20000, ms |-> 0]
Now == [nan |-> FALSE, day |-> 20500, ms |-> 0]

InitTime ==
  /\ input \in InputsOver(TimedLineSet, MaxLines)
  /\ pc = "parseInput"
  /\ summaryLeafs = EmptyObject
  /\ sessionGroups = <<>>
  /\ gi = 1
  /\ sessions = <<>>
  /\ context = NewProcessingContext
  /\ jobs = <<>>
  /\ mi = 1
  /\ output = <<>>
  /\ frags = <<>>
  /\ returned = <<>>
  /\ results = <<>>
  /\ document = EmptyStr

\* lines 73-96 for one session found in the file
fileTimeFallback(session) ==
  IF ~(IsTimeZero(session.firstCreated) \/ IsTimeZero(session.lastModified)) THEN session
  ELSE LET firstFileTime == IF DateBefore(FileMtime, Now) THEN FileMtime ELSE Now
           lastFileTime == IF DateBefore(Epoch, FileMtime) THEN FileMtime ELSE Epoch
       IN [session EXCEPT
             !.firstCreated = IF IsTimeZero(@) THEN firstFileTime ELSE @,
             !.lastModified = IF IsTimeZero(@) THEN lastFileTime ELSE @]

\* lines 58-97: every session's id occurs in the file it was read from
FileMetadata ==
  /\ pc = "parsed"
  /\ sessions' = [i \in 1..Len(sessions) |->
                    [sessions[i] EXCEPT !.value = fileTimeFallback(@)]]
  /\ pc' = "metadata"
  /\ UNCHANGED <<input, summaryLeafs, sessionGroups, gi, formatterVars>>

sessionToInfo(session) ==
  [sessionId |-> session.id,
   timestamp |-> IF session.lastTimestamp # EmptyStr THEN session.lastTimestamp
                 ELSE session.firstTimestamp,
   summary |-> IF session.summary # EmptyStr THEN session.summary
               ELSE IF session.generatedSummary # EmptyStr THEN session.generatedSummary
               ELSE <<"Untitled">>,
   messageCount |-> session.messageCount,
   modified |-> session.lastModified,
   created |-> session.firstCreated]

\* sort((a, b) => b.modified.getTime() - a.modified.getTime()): stable, most
\* recently modified first
RECURSIVE sortByModified(_)
sortByModified(infos) ==
  IF Len(infos) <= 1 THEN infos
  ELSE LET sorted == sortByModified(SubSeq(infos, 1, Len(infos) - 1))
           last == infos[Len(infos)]
           ahead == {i \in 1..Len(sorted) : ~DateBefore(sorted[i].modified, last.modified)}
           n == IF \A i \in 1..Len(sorted) : i \in ahead THEN Len(sorted)
                ELSE (CHOOSE i \in 1..Len(sorted) :
                        i \notin ahead /\ \A j \in 1..(i - 1) : j \in ahead) - 1
       IN SubSeq(sorted, 1, n) \o <<last>> \o SubSeq(sorted, n + 1, Len(sorted))

\* lines 100-103
ListSessions ==
  /\ pc = "metadata"
  /\ results' = sortByModified(
                  SelectSeq([i \in 1..Len(sessions) |-> sessionToInfo(sessions[i].value)],
                            LAMBDA info : info.messageCount > 0))
  /\ pc' = "listed"
  /\ UNCHANGED <<input, summaryLeafs, sessionGroups, gi, sessions, context, jobs, mi,
                 output, frags, returned, document>>

NextTime ==
  \/ CollectSummaries
  \/ GroupMessages
  \/ SplitSession
  \/ ReturnSessions
  \/ FileMetadata
  \/ ListSessions

SpecTime == InitTime /\ [][NextTime]_vars

-----------------------------------------------------------------------------
(* C27: firstCreated and lastModified *)

\* the Dates of the records of a session whose timestamp is valid and parses
\* to a time other than the sentinel
RecordTimes(messages) ==
  {parseTimestamp(messages[k].timestamp) :
     k \in {j \in 1..Len(messages) :
              /\ messages[j].timestamp # EmptyStr
              /\ isValidTimestamp(messages[j].timestamp)
              /\ ~IsTimeZero(parseTimestamp(messages[j].timestamp))}}

NotAfter(a, b) == ~a.nan /\ ~b.nan /\ ~DateBefore(b, a)

\* C27: for every session parseInput returns, if a record has a valid
\* timestamp that parses to a non-sentinel time then firstCreated is the
\* earliest and lastModified the latest of those times, whatever the order of
\* the records (so firstCreated <= lastModified); otherwise both are the
\* epoch sentinel.
C27_FirstIsMinLastIsMax ==
  Parsed =>
    \A i \in 1..Len(sessions) :
      LET session == sessions[i].value
          times == RecordTimes(session.messages)
      IN IF times = {}
         THEN IsTimeZero(session.firstCreated) /\ IsTimeZero(session.lastModified)
         ELSE /\ session.firstCreated \in times
              /\ session.lastModified \in times
              /\ \A t \in times : NotAfter(session.firstCreated, t)
              /\ \A t \in times : NotAfter(t, session.lastModified)
              /\ NotAfter(session.firstCreated, session.lastModified)

\* the same for the sessions none of whose records has a timestamp that
\* passes isValidTimestamp and is no date
C27_MinMaxOfRealDates ==
  Parsed =>
    \A i \in 1..Len(sessions) :
      LET session == sessions[i].value
          times == RecordTimes(session.messages)
      IN (\A t \in times : ~t.nan) =>
           IF times = {}
           THEN IsTimeZero(session.firstCreated) /\ IsTimeZero(session.lastModified)
           ELSE /\ session.firstCreated \in times
                /\ session.lastModified \in times
                /\ \A t \in times : NotAfter(session.firstCreated, t)
                /\ \A t \in times : NotAfter(t, session.lastModified)

-----------------------------------------------------------------------------
(* C28: the sentinel and time zero *)

ValidlyStamped(messages) ==
  {k \in 1..Len(messages) :
     messages[k].timestamp # EmptyStr /\ isValidTimestamp(messages[k].timestamp)}

\* the records whose valid timestamp denotes time zero
StampedTimeZero(messages) ==
  {k \in ValidlyStamped(messages) : IsTimeZero(parseTimestamp(messages[k].timestamp))}

AllRealDates(messages) ==
  \A k \in ValidlyStamped(messages) : ~parseTimestamp(messages[k].timestamp).nan

\* C28: the sentinel is told apart from a timestamp that denotes time zero.
\* A session none of whose records has a valid timestamp keeps the sentinel
\* in parseInput and takes the file's time in parseFiles; a session with a
\* record whose valid timestamp denotes time zero has that time as its first
\* time (it is the earliest possible), also when later records carry later
\* times and after the file-time fallback, and as its last time when no
\* record carries a later one.
C28_TimeZeroCountsAsSet ==
  pc \in {"parsed", "metadata", "listed"} =>
    \A i \in 1..Len(sessions) :
      LET session == sessions[i].value
          messages == session.messages
      IN /\ (ValidlyStamped(messages) = {} /\ pc = "parsed") =>
              IsTimeZero(session.firstCreated) /\ IsTimeZero(session.lastModified)
         /\ (ValidlyStamped(messages) = {} /\ pc # "parsed") =>
              session.firstCreated = FileMtime /\ session.lastModified = FileMtime
         /\ (StampedTimeZero(messages) # {} /\ AllRealDates(messages)) =>
              /\ IsTimeZero(session.firstCreated)
              /\ (StampedTimeZero(messages) = ValidlyStamped(messages)) =>
                   IsTimeZero(session.lastModified)

\* after parseFiles, a session whose only valid timestamp denotes time zero
\* has the time of the file as its first and last time
C28_TimeZeroReplacedByFileTime ==
  pc = "listed" =>
    \A i \in 1..Len(sessions) :
      LET messages == sessions[i].value.messages
      IN (StampedTimeZero(messages) # {} /\ StampedTimeZero(messages) = ValidlyStamped(messages)) =>
           /\ sessions[i].value.firstCreated = FileMtime
           /\ sessions[i].value.lastModified = FileMtime

-----------------------------------------------------------------------------
(* C29: session ids *)

\* C29: the session ids of the result identify distinct chunks: two chunks
\* that are emitted never have the same id, so the session of every chunk
\* with a user or assistant record is in the result (none is overwritten),
\* and the messages of every session come from one sessionId bucket.
C29_SessionIdsIdentifyChunks ==
  Parsed =>
    /\ \A d \in OwnedRecords : \A e \in OwnedRecords :
         (ChunkCounted(d) /\ ChunkCounted(e) /\ ChunkIdOf(d) = ChunkIdOf(e)) =>
           ChunkOf(d) = ChunkOf(e)
    /\ \A d \in OwnedRecords : ChunkCounted(d) => SessionsWith(d) # {}
    /\ \A i \in 1..Len(sessions) :
         \A k \in 1..Len(sessions[i].value.messages) :
           sessions[i].value.messages[k].sessionId = sessions[i].value.messages[1].sessionId

\* every session holds the records of one chunk, all of one bucket, and the
\* chunks that are missing are those whose id a later chunk was stored under
C29_LaterChunkReplacesEarlier ==
  Parsed =>
    /\ \A d \in OwnedRecords :
         ChunkCounted(d) => (SessionsWith(d) # {} <=> ChunkReturned(d))
    /\ \A i \in 1..Len(sessions) :
         \A k \in 1..Len(sessions[i].value.messages) :
           sessions[i].value.messages[k].sessionId = sessions[i].value.messages[1].sessionId

-----------------------------------------------------------------------------
(* C30: structured patches in a run of coalesced results *)

\* the records whose results are handed over by the flush at record j: those
\* that queued results since the flush before
CoalescedAt(j) ==
  {i \in 1..j : QueuedBy(i) # <<>> /\ \A k \in i..(j - 1) : returned[k].flushed = <<>>}

\* no result of the run is a cancelled one
NoCancelledResult(j) ==
  \A i \in CoalescedAt(j) :
    \A n \in 1..Len(ItemsOfType(Records[i], "tool_result")) :
      ~ItemsOfType(Records[i], "tool_result")[n].is_error

\* the results of record i, each rendered with the toolUseResult of record i
RenderedWithOwnPatch(i, j) ==
  Flatten([n \in 1..Len(QueuedBy(i)) |->
             formatToolResult(QueuedBy(i)[n],
                              [returned[j].context EXCEPT
                                 !.currentToolUseResult = Records[i].toolUseResult])])

\* the n-th record of the run, in record order
NthCoalesced(j, n) ==
  CHOOSE i \in CoalescedAt(j) : Cardinality({k \in CoalescedAt(j) : k < i}) = n - 1

\* C30: when the results of a run of consecutive user tool-result records
\* are flushed together, each result is rendered with the toolUseResult of
\* the record that carried it: as that record's diff if it has a structured
\* patch, and else as a task list or a <details> block.
C30_PatchStaysWithItsRecord ==
  \A j \in 1..Len(returned) :
    (returned[j].flushed # <<>> /\ NoCancelledResult(j)) =>
      frags[j] = returned[j].result
                 \o Flatten([n \in 1..Cardinality(CoalescedAt(j)) |->
                               RenderedWithOwnPatch(NthCoalesced(j, n), j)])

\* each result of a run is rendered with the toolUseResult of the last
\* record of the run
C30_LastRecordDecides ==
  \A j \in 1..Len(returned) :
    (returned[j].flushed # <<>> /\ NoCancelledResult(j)) =>
      frags[j] = returned[j].result
                 \o Flatten([n \in 1..Len(returned[j].flushed) |->
                               formatToolResult(returned[j].flushed[n],
                                 [returned[j].context EXCEPT
                                    !.currentToolUseResult = Records[j].toolUseResult])])

====
